---- MODULE Spec2Model ----
(***************************************************************************)
(* Model of the Task API backend: signup / signin (api/routes/auth.py),    *)
(* token issue and verification (core/security.py), the access guard       *)
(* (api/deps.py), the task endpoints (api/routes/tasks.py) and the error   *)
(* handlers of main.py.                                                    *)
(*                                                                         *)
(* Time is counted in ticks; TicksPerSecond ticks make one second.  JWT    *)
(* timestamps are whole seconds (PyJWT encodes a datetime with             *)
(* timegm(utctimetuple()), dropping the fraction).                         *)
(***************************************************************************)
EXTENDS Integers, Sequences, FiniteSets, TLC

\* ------------------------------------------------------------------ bounds
\* task rows the store may hold
MaxTasks == 2
\* tokens issued in one behaviour
MaxTokens == 3
\* signup requests in flight at once
MaxProcs == 2
\* whole ttl periods the clock may run through
MaxEpoch == 1
\* resolution of the clock
TicksPerSecond == 2

\* ------------------------------------------------------- program constants
JWT_EXPIRATION_HOURS == 24
SecondsPerHour == 3600
MIN_PASSWORD_LENGTH == 8
BCRYPT_MAX_BYTES == 72
TITLE_MAX_LENGTH == 500

\* ------------------------------------------------------------- the builds
(* The sources import fastapi and bcrypt without pinning a release.  Two    *)
(* behaviours of those libraries differ between releases and are visible   *)
(* to clients; a build has one of each.  The tables are made either by     *)
(* schema.sql or by init_db, and a build has one of the two.               *)
(*   legacyBearer: HTTPBearer answers 403 when the credentials are missing *)
(*                 or the scheme is not Bearer (fastapi before 0.122);     *)
(*                 otherwise it answers 401.                               *)
(*   strictBcrypt: bcrypt.hashpw / checkpw raise ValueError for a password *)
(*                 longer than 72 bytes (bcrypt 5.0 and later); otherwise  *)
(*                 the password is cut to 72 bytes.                        *)
(*   cascade:      the tables come from schema.sql, whose foreign key      *)
(*                 tasks.user_id is ON DELETE CASCADE; otherwise they come *)
(*                 from init_db, SQLModel.metadata.create_all over         *)
(*                 Field(foreign_key="users.id"), a foreign key with no    *)
(*                 ON DELETE rule.                                         *)
Builds == [legacyBearer : BOOLEAN, strictBcrypt : BOOLEAN, cascade : BOOLEAN]

\* ------------------------------------------------------------ identifiers
\* the addresses signups come with, and an id for the row of each
Emails == {"a@x.com", "b@x.com"}

(* A UUID is a number.  A string naming a UUID is a record: the canonical  *)
(* form is what str(uuid) prints, "upper" is the same digits in upper case *)
(* (uuid.UUID accepts it), "bad" is a string uuid.UUID rejects.            *)
UserUUIDs == 1 .. Cardinality(Emails)
TaskUUIDs == (Cardinality(Emails) + 1) .. (Cardinality(Emails) + MaxTasks)
\* a well-formed UUID naming no row
GhostUUID == Cardinality(Emails) + MaxTasks + 1

Str(u) == [uuid |-> u, form |-> "canon"]
Upper(u) == [uuid |-> u, form |-> "upper"]
BadStr == [uuid |-> GhostUUID, form |-> "bad"]
None == [uuid |-> GhostUUID, form |-> "none"]       \* Python's None

\* uuid.UUID(s) raises ValueError exactly when IsUUID(s) is false
IsUUID(s) == s.form \in {"canon", "upper"}
UUID(s) == s.uuid

\* ---------------------------------------------------------------- strings
NULL == "<null>"

(* A password is its first 72 bytes (head) and what follows them (tail).   *)
(* Only a head of full length can have a tail.                             *)
Heads == {"1", "seven77", "eight888", "other888", "full72"}
HeadLen(h) ==
    CASE h = "1" -> 1
      [] h = "seven77" -> 7
      [] h = "eight888" -> 8
      [] h = "other888" -> 8
      [] h = "full72" -> BCRYPT_MAX_BYTES
Pw(h, t) == [head |-> h, tail |-> t]
Passwords ==
    {Pw(h, "") : h \in Heads} \cup {Pw("full72", t) : t \in {"x", "y"}}
PwLen(p) == HeadLen(p.head) + (IF p.tail = "" THEN 0 ELSE 1)

\* ------------------------------------------------------- Credential Hasher
\* what bcrypt.gensalt(rounds=12) can return
Salts == {"s1", "s2"}
NoDigest == [wf |-> FALSE, salt |-> "s1", head |-> "seven77"]

(* bcrypt.hashpw(password, salt): a ValueError for an over-long password   *)
(* in a strict build, else the digest of the first 72 bytes under salt.    *)
bcrypt_hashpw(build, password, salt) ==
    IF build.strictBcrypt /\ PwLen(password) > BCRYPT_MAX_BYTES
    THEN [raised |-> TRUE, digest |-> NoDigest]
    ELSE [raised |-> FALSE,
          digest |-> [wf |-> TRUE, salt |-> salt, head |-> password.head]]

(* bcrypt.checkpw(password, hashed): hashpw with the salt of the stored    *)
(* digest, then a constant-time comparison; a ValueError when the stored   *)
(* digest has no valid salt.                                               *)
bcrypt_checkpw(build, password, hashed) ==
    IF ~hashed.wf
    THEN [raised |-> TRUE, ok |-> FALSE]
    ELSE LET h == bcrypt_hashpw(build, password, hashed.salt)
         IN  IF h.raised THEN [raised |-> TRUE, ok |-> FALSE]
             ELSE [raised |-> FALSE, ok |-> (h.digest = hashed)]

hash_password(build, password, salt) == bcrypt_hashpw(build, password, salt)

verify_password(build, plain_password, hashed_password) ==
    bcrypt_checkpw(build, plain_password, hashed_password)

\* ---------------------------------------------------------------- Settings
MIN_SECRET_LENGTH == 32

(* The values the environment can hold for BETTER_AUTH_SECRET: unset, 31   *)
(* ASCII characters, 32 ASCII characters, 33 ASCII characters, and 20      *)
(* characters of two bytes each.                                           *)
Secrets == {"", "secret-31", "server-secret", "secret-33", "secret-20-wide"}
SecretChars(secret) ==
    CASE secret = "" -> 0
      [] secret = "secret-31" -> MIN_SECRET_LENGTH - 1
      [] secret = "server-secret" -> MIN_SECRET_LENGTH
      [] secret = "secret-33" -> MIN_SECRET_LENGTH + 1
      [] secret = "secret-20-wide" -> 20
SecretBytes(secret) ==
    IF secret = "secret-20-wide" THEN 40 ELSE SecretChars(secret)

\* a validation that asks for 16 characters only
Settings_validate_16(secret) == SecretChars(secret) >= 16

\* Settings._validate: len(self.BETTER_AUTH_SECRET) < 32 raises ValueError
Settings_validate(secret) == SecretChars(secret) >= MIN_SECRET_LENGTH

NoSettings == [loaded |-> FALSE, BETTER_AUTH_SECRET |-> ""]

(* settings = Settings(): _get_required_env raises for an unset or empty   *)
(* value, _validate for a short one; raised means the import of config,    *)
(* and with it the start of the application, fails.                        *)
Settings(secret) ==
    IF secret = "" \/ ~Settings_validate(secret)
    THEN [raised |-> TRUE, value |-> NoSettings]
    ELSE [raised |-> FALSE,
          value |-> [loaded |-> TRUE, BETTER_AUTH_SECRET |-> secret]]

\* the module-level settings object of core/config.py
VARIABLE settings

\* ----------------------------------------------------------- Token Service
BETTER_AUTH_SECRET == settings.BETTER_AUTH_SECRET
OtherKey == "other-key"
NoEmail == ""

DefaultTtl == JWT_EXPIRATION_HOURS * SecondsPerHour * TicksPerSecond

\* HMAC of a payload under a key
Sign(payload, key) == [key |-> key, msg |-> payload]

(* create_access_token: t1 and t2 are the two readings of utcnow(), delta  *)
(* is the expires_delta in ticks.                                          *)
create_access_token(user_id, email, delta, t1, t2) ==
    LET payload == [sub |-> user_id,
                    exp |-> (t1 + delta) \div TicksPerSecond,
                    iat |-> t2 \div TicksPerSecond,
                    email |-> email]
    IN  [wf |-> TRUE, payload |-> payload,
         sig |-> Sign(payload, BETTER_AUTH_SECRET)]

\* a decode that takes a token for expired one second early
jwt_decode_early(token, key, t) ==
    IF ~token.wf THEN [exc |-> "DecodeError", payload |-> token.payload]
    ELSE IF token.sig # Sign(token.payload, key)
    THEN [exc |-> "InvalidSignatureError", payload |-> token.payload]
    ELSE IF token.payload.iat * TicksPerSecond > t
    THEN [exc |-> "ImmatureSignatureError", payload |-> token.payload]
    ELSE IF (token.payload.exp - 1) * TicksPerSecond <= t
    THEN [exc |-> "ExpiredSignatureError", payload |-> token.payload]
    ELSE [exc |-> "", payload |-> token.payload]

\* a decode with the expiry check switched off
jwt_decode_no_exp(token, key, t) ==
    IF ~token.wf THEN [exc |-> "DecodeError", payload |-> token.payload]
    ELSE IF token.sig # Sign(token.payload, key)
    THEN [exc |-> "InvalidSignatureError", payload |-> token.payload]
    ELSE IF token.payload.iat * TicksPerSecond > t
    THEN [exc |-> "ImmatureSignatureError", payload |-> token.payload]
    ELSE [exc |-> "", payload |-> token.payload]

(* jwt.decode(token, key, algorithms): structure, then signature, then the *)
(* iat and exp claims against the clock.                                   *)
jwt_decode(token, key, t) ==
    IF ~token.wf THEN [exc |-> "DecodeError", payload |-> token.payload]
    ELSE IF token.sig # Sign(token.payload, key)
    THEN [exc |-> "InvalidSignatureError", payload |-> token.payload]
    ELSE IF token.payload.iat * TicksPerSecond > t
    THEN [exc |-> "ImmatureSignatureError", payload |-> token.payload]
    ELSE IF token.payload.exp * TicksPerSecond <= t
    THEN [exc |-> "ExpiredSignatureError", payload |-> token.payload]
    ELSE [exc |-> "", payload |-> token.payload]

InvalidTokenErrors ==
    {"DecodeError", "InvalidSignatureError", "ImmatureSignatureError"}

\* a decode_access_token that catches ExpiredSignatureError only
decode_access_token_expired_only(token, t) ==
    LET d == jwt_decode(token, BETTER_AUTH_SECRET, t)
    IN  IF d.exc = "" THEN [raised |-> FALSE, user_id |-> d.payload.sub]
        ELSE IF d.exc = "ExpiredSignatureError"
        THEN [raised |-> FALSE, user_id |-> None]
        ELSE [raised |-> TRUE, user_id |-> None]

\* a decode that wants an email claim beside the subject
decode_access_token_with_email(token, t) ==
    LET d == jwt_decode(token, BETTER_AUTH_SECRET, t)
    IN  IF d.exc = "" /\ d.payload.email # NoEmail
        THEN [raised |-> FALSE, user_id |-> d.payload.sub]
        ELSE [raised |-> FALSE, user_id |-> None]

(* decode_access_token: the subject of a token that decodes, None for      *)
(* every exception of jwt.decode.                                          *)
decode_access_token(token, t) ==
    LET d == jwt_decode(token, BETTER_AUTH_SECRET, t)
    IN  IF d.exc = "" THEN [raised |-> FALSE, user_id |-> d.payload.sub]
        ELSE IF d.exc = "ExpiredSignatureError"
        THEN [raised |-> FALSE, user_id |-> None]
        ELSE IF d.exc \in InvalidTokenErrors
        THEN [raised |-> FALSE, user_id |-> None]
        ELSE [raised |-> FALSE, user_id |-> None]

\* ------------------------------------------------- the Authorization header
(* A header value is a sequence of words and single whitespace            *)
(* characters, no two words next to each other.                           *)
MaxHeaderLen == 4
Whitespace == {" ", "\t"}
Words == {"Bearer", "bearer", "BEARER", "Basic", "eyJ"}
HeaderValues ==
    {h \in UNION {[1 .. n -> Words \cup Whitespace] : n \in 0 .. MaxHeaderLen} :
        \A k \in 1 .. Len(h) - 1 :
            h[k] \in Whitespace \/ h[k + 1] \in Whitespace}

\* str.lower() of the words a header is made of
Lower(scheme) ==
    IF scheme \in {"Bearer", "BEARER"} THEN "bearer" ELSE scheme

\* str.split(): the words between runs of whitespace
Split(h) == SelectSeq(h, LAMBDA c : c \notin Whitespace)

NoToken == "<None>"

(* extract_token_from_header: None for an empty value, for other than two  *)
(* parts and for a first part that is not Bearer in some case.              *)
extract_token_from_header(authorization_header) ==
    LET parts == Split(authorization_header)
    IN  IF authorization_header = <<>> THEN NoToken
        ELSE IF Len(parts) # 2 THEN NoToken
        ELSE IF Lower(parts[1]) # "bearer" THEN NoToken
        ELSE parts[2]

NoExtract == [header |-> <<>>, token |-> NoToken]

\* ------------------------------------------------------------- responses
(* A response is the status line and the JSON body: the detail, the        *)
(* error_code and status members (absent: "" and FALSE), the tasks of a    *)
(* task response and the member of an auth response.                       *)
Response(status, detail, code, hasStatus, taskList, count, auth) ==
    [status |-> status, detail |-> detail, error_code |-> code,
     has_status |-> hasStatus, tasks |-> taskList, count |-> count,
     auth |-> auth]

Error(status, detail, code, hasStatus) ==
    Response(status, detail, code, hasStatus, <<>>, <<>>, <<>>)

(* An HTTPException(status_code, detail) as the client sees it: main.py    *)
(* registers handlers for the status codes 400, 401, 404 and 422; the      *)
(* handler registered for 500 serves uncaught exceptions only; every other *)
(* HTTPException gets the framework's {"detail": detail}.                  *)
HTTPException(status, detail) ==
    CASE status = 400 -> Error(400, "Bad request", "BAD_REQUEST", TRUE)
      [] status = 401 -> Error(401, "Unauthorized", "UNAUTHORIZED", TRUE)
      [] status = 404 -> Error(404, "Resource not found", "NOT_FOUND", TRUE)
      [] status = 422 -> Error(422, "Validation error", "VALIDATION_ERROR", TRUE)
      [] OTHER -> Error(status, detail, "", FALSE)

\* an exception no handler of the route catches
internal_error_handler ==
    Error(500, "Internal server error", "INTERNAL_ERROR", TRUE)

\* a request model that fails validation (RequestValidationError)
RequestValidationError == Error(422, "<pydantic errors>", "", FALSE)

\* ----------------------------------------------------------- Access Guard
(* The Authorization header: scheme "" when the header is absent, hasCred  *)
(* FALSE when nothing follows the scheme.                                  *)
Header(scheme, hasCred, token) ==
    [scheme |-> scheme, hasCred |-> hasCred, cred |-> token]

Pass(v) == [ok |-> TRUE, value |-> v, resp |-> Error(200, "", "", FALSE)]
Fail(r) == [ok |-> FALSE, value |-> None, resp |-> r]

\* security_scheme = HTTPBearer(): the credentials of a Bearer header
HTTPBearer(build, header) ==
    IF header.scheme = "" \/ ~header.hasCred
    THEN Fail(HTTPException(IF build.legacyBearer THEN 403 ELSE 401,
                            "Not authenticated"))
    ELSE IF Lower(header.scheme) # "bearer"
    THEN Fail(IF build.legacyBearer
              THEN HTTPException(403, "Invalid authentication credentials")
              ELSE HTTPException(401, "Not authenticated"))
    ELSE Pass(None)

get_current_user(build, header, t) ==
    LET credentials == HTTPBearer(build, header)
        decoded == decode_access_token(header.cred, t)
    IN  IF ~credentials.ok THEN credentials
        ELSE IF decoded.raised THEN Fail(internal_error_handler)
        ELSE IF decoded.user_id = None
        THEN Fail(HTTPException(401, "Invalid or expired authentication token"))
        ELSE Pass(decoded.user_id)

\* HTTPBearer(auto_error=False): no credentials where HTTPBearer() refuses
HTTPBearerOptional(header) ==
    IF header.scheme = "" \/ ~header.hasCred THEN [present |-> FALSE]
    ELSE IF Lower(header.scheme) # "bearer" THEN [present |-> FALSE]
    ELSE [present |-> TRUE]

(* get_current_user_optional: None without credentials, else whatever      *)
(* decode_access_token returns.                                            *)
get_current_user_optional(header, t) ==
    LET credentials == HTTPBearerOptional(header)
        decoded == decode_access_token(header.cred, t)
    IN  IF ~credentials.present THEN Pass(None)
        ELSE IF decoded.raised THEN Fail(internal_error_handler)
        ELSE Pass(decoded.user_id)

\* a guard that lets every authenticated caller through
verify_user_access_any(user_id, authenticated_user_id) == Pass(user_id)

verify_user_access(user_id, authenticated_user_id) ==
    IF user_id # authenticated_user_id
    THEN Fail(HTTPException(403,
              "You do not have permission to access this resource"))
    ELSE Pass(user_id)

\* an ownership check that compares the ids, not their spellings
validate_user_ownership_uuid(url_user_id, authenticated_user_id) ==
    IF ~IsUUID(url_user_id)
    THEN Fail(HTTPException(422, "Invalid user_id format - must be valid UUID"))
    ELSE IF UUID(url_user_id) # UUID(authenticated_user_id)
    THEN Fail(HTTPException(403,
              "You do not have permission to access this resource"))
    ELSE Pass(url_user_id)

\* an ownership check that stops after the format check
validate_user_ownership_format(url_user_id, authenticated_user_id) ==
    IF ~IsUUID(url_user_id)
    THEN Fail(HTTPException(422, "Invalid user_id format - must be valid UUID"))
    ELSE Pass(url_user_id)

validate_user_ownership(url_user_id, authenticated_user_id) ==
    IF ~IsUUID(url_user_id)
    THEN Fail(HTTPException(422, "Invalid user_id format - must be valid UUID"))
    ELSE LET access == verify_user_access(url_user_id, authenticated_user_id)
         IN  IF ~access.ok THEN access ELSE Pass(url_user_id)

\* -------------------------------------------------------------- Task Store
OMIT == "<omitted>"             \* a member the JSON body does not have

TitleLen(title) ==
    CASE title = "" -> 0
      [] title = "<long>" -> TITLE_MAX_LENGTH + 1
      [] OTHER -> 1

\* pydantic: an omitted member and an explicit null both read as None
Parsed(member) == IF member \in {OMIT, NULL} THEN NULL ELSE member

\* TaskCreate: title required, 1..500 characters
TaskCreateValid(body) ==
    /\ body.title \notin {OMIT, NULL}
    /\ TitleLen(body.title) >= 1
    /\ TitleLen(body.title) <= TITLE_MAX_LENGTH

\* TaskUpdate: every member optional, a title given has 1..500 characters
TaskUpdateValid(body) ==
    Parsed(body.title) # NULL =>
        /\ TitleLen(body.title) >= 1
        /\ TitleLen(body.title) <= TITLE_MAX_LENGTH

\* TaskResponse.model_validate(task)
TaskResponse(store, id) ==
    [id |-> id, user_id |-> store[id].user_id, title |-> store[id].title,
     description |-> store[id].description,
     completed |-> store[id].completed,
     created_at |-> store[id].created_at,
     updated_at |-> store[id].updated_at]

(* ORDER BY created_at DESC; rows created at the same instant come in the  *)
(* order of their ids.                                                     *)
RECURSIVE OrderByCreatedDesc(_, _)
OrderByCreatedDesc(store, ids) ==
    IF ids = {} THEN <<>>
    ELSE LET first == CHOOSE i \in ids : \A j \in ids :
                        \/ store[i].created_at > store[j].created_at
                        \/ /\ store[i].created_at = store[j].created_at
                           /\ i <= j
         IN  <<TaskResponse(store, first)>>
               \o OrderByCreatedDesc(store, ids \ {first})

\* select(Task).where(Task.user_id == user_uuid)
SelectByOwner(store, user_uuid) ==
    {i \in DOMAIN store : store[i].user_id = user_uuid}

\* a lookup by id that forgets the owner
SelectByIdOnly(store, task_uuid, user_uuid) ==
    {i \in DOMAIN store : i = task_uuid}

\* select(Task).where(Task.id == task_uuid, Task.user_id == user_uuid)
SelectByIdAndOwner(store, task_uuid, user_uuid) ==
    {i \in DOMAIN store : i = task_uuid /\ store[i].user_id = user_uuid}

TaskNotFound == HTTPException(404, "Task not found")
BadTaskId == HTTPException(422, "Invalid task_id format - must be valid UUID")

Done(resp, store) == [resp |-> resp, tasks |-> store]

\* ---------------------------------------------------------- task endpoints
\* a list whose select has lost its WHERE clause
list_tasks_any_owner(build, store, t, header, user_id) ==
    LET auth == get_current_user(build, header, t)
        owner == validate_user_ownership(user_id, auth.value)
        rows == OrderByCreatedDesc(store, DOMAIN store)
    IN  IF ~auth.ok THEN Done(auth.resp, store)
        ELSE IF ~owner.ok THEN Done(owner.resp, store)
        ELSE Done(Response(200, "", "", FALSE, rows, <<Len(rows)>>, <<>>),
                  store)

(* Each endpoint is the response and the task table it leaves.  The        *)
(* dependencies run first (get_current_user), then the request model is    *)
(* validated, then the body of the route.                                  *)
list_tasks(build, store, t, header, user_id) ==
    LET auth == get_current_user(build, header, t)
        owner == validate_user_ownership(user_id, auth.value)
        rows == OrderByCreatedDesc(store,
                    SelectByOwner(store, UUID(owner.value)))
    IN  IF ~auth.ok THEN Done(auth.resp, store)
        ELSE IF ~owner.ok THEN Done(owner.resp, store)
        ELSE Done(Response(200, "", "", FALSE, rows, <<Len(rows)>>, <<>>),
                  store)

\* a create that takes the completed flag from the request body
create_task_body_completed(build, store, userIds, t, header, user_id, body, newId) ==
    LET auth == get_current_user(build, header, t)
        owner == validate_user_ownership(user_id, auth.value)
        task == [user_id |-> UUID(owner.value),
                 title |-> body.title,
                 description |-> Parsed(body.description),
                 completed |-> body.completed = "true",
                 created_at |-> t, updated_at |-> t]
        added == [i \in DOMAIN store \cup {newId} |->
                    IF i = newId THEN task ELSE store[i]]
    IN  IF ~auth.ok THEN Done(auth.resp, store)
        ELSE IF ~TaskCreateValid(body)
        THEN Done(RequestValidationError, store)
        ELSE IF ~owner.ok THEN Done(owner.resp, store)
        ELSE IF UUID(owner.value) \notin userIds    \* foreign key violation
        THEN Done(internal_error_handler, store)
        ELSE Done(Response(201, "", "", FALSE,
                           <<TaskResponse(added, newId)>>, <<>>, <<>>),
                  added)

create_task(build, store, userIds, t, header, user_id, body, newId) ==
    LET auth == get_current_user(build, header, t)
        owner == validate_user_ownership(user_id, auth.value)
        task == [user_id |-> UUID(owner.value),
                 title |-> body.title,
                 description |-> Parsed(body.description),
                 completed |-> FALSE,
                 created_at |-> t, updated_at |-> t]
        added == [i \in DOMAIN store \cup {newId} |->
                    IF i = newId THEN task ELSE store[i]]
    IN  IF ~auth.ok THEN Done(auth.resp, store)
        ELSE IF ~TaskCreateValid(body)
        THEN Done(RequestValidationError, store)
        ELSE IF ~owner.ok THEN Done(owner.resp, store)
        ELSE IF UUID(owner.value) \notin userIds    \* foreign key violation
        THEN Done(internal_error_handler, store)
        ELSE Done(Response(201, "", "", FALSE,
                           <<TaskResponse(added, newId)>>, <<>>, <<>>),
                  added)

get_task(build, store, t, header, user_id, task_id) ==
    LET auth == get_current_user(build, header, t)
        owner == validate_user_ownership(user_id, auth.value)
        found == SelectByIdAndOwner(store, UUID(task_id), UUID(owner.value))
    IN  IF ~auth.ok THEN Done(auth.resp, store)
        ELSE IF ~owner.ok THEN Done(owner.resp, store)
        ELSE IF ~IsUUID(task_id) THEN Done(BadTaskId, store)
        ELSE IF found = {} THEN Done(TaskNotFound, store)
        ELSE Done(Response(200, "", "", FALSE,
                           <<TaskResponse(store, UUID(task_id))>>,
                           <<>>, <<>>),
                  store)

\* an update that resets the members the request leaves out
update_task_replace(build, store, t, header, user_id, task_id, body) ==
    LET auth == get_current_user(build, header, t)
        owner == validate_user_ownership(user_id, auth.value)
        found == SelectByIdAndOwner(store, UUID(task_id), UUID(owner.value))
        old == store[UUID(task_id)]
        new == [old EXCEPT
                  !.title = IF Parsed(body.title) # NULL
                            THEN body.title ELSE @,
                  !.description = Parsed(body.description),
                  !.completed = body.completed = "true",
                  !.updated_at = t]
        saved == [store EXCEPT ![UUID(task_id)] = new]
    IN  IF ~auth.ok THEN Done(auth.resp, store)
        ELSE IF ~TaskUpdateValid(body)
        THEN Done(RequestValidationError, store)
        ELSE IF ~owner.ok THEN Done(owner.resp, store)
        ELSE IF ~IsUUID(task_id) THEN Done(BadTaskId, store)
        ELSE IF found = {} THEN Done(TaskNotFound, store)
        ELSE Done(Response(200, "", "", FALSE,
                           <<TaskResponse(saved, UUID(task_id))>>,
                           <<>>, <<>>),
                  saved)

update_task(build, store, t, header, user_id, task_id, body) ==
    LET auth == get_current_user(build, header, t)
        owner == validate_user_ownership(user_id, auth.value)
        found == SelectByIdAndOwner(store, UUID(task_id), UUID(owner.value))
        old == store[UUID(task_id)]
        new == [old EXCEPT
                  !.title = IF Parsed(body.title) # NULL
                            THEN body.title ELSE @,
                  !.description = IF Parsed(body.description) # NULL
                                  THEN body.description ELSE @,
                  !.completed = IF Parsed(body.completed) # NULL
                                THEN body.completed = "true" ELSE @,
                  !.updated_at = t]
        saved == [store EXCEPT ![UUID(task_id)] = new]
    IN  IF ~auth.ok THEN Done(auth.resp, store)
        ELSE IF ~TaskUpdateValid(body)
        THEN Done(RequestValidationError, store)
        ELSE IF ~owner.ok THEN Done(owner.resp, store)
        ELSE IF ~IsUUID(task_id) THEN Done(BadTaskId, store)
        ELSE IF found = {} THEN Done(TaskNotFound, store)
        ELSE Done(Response(200, "", "", FALSE,
                           <<TaskResponse(saved, UUID(task_id))>>,
                           <<>>, <<>>),
                  saved)

\* a delete that answers 204 and leaves the row where it is
delete_task_soft(build, store, t, header, user_id, task_id) ==
    LET auth == get_current_user(build, header, t)
        owner == validate_user_ownership(user_id, auth.value)
        found == SelectByIdAndOwner(store, UUID(task_id), UUID(owner.value))
        removed == [i \in DOMAIN store \ {UUID(task_id)} |-> store[i]]
    IN  IF ~auth.ok THEN Done(auth.resp, store)
        ELSE IF ~owner.ok THEN Done(owner.resp, store)
        ELSE IF ~IsUUID(task_id) THEN Done(BadTaskId, store)
        ELSE IF found = {} THEN Done(TaskNotFound, store)
        ELSE Done(Response(204, "", "", FALSE, <<>>, <<>>, <<>>), store)

delete_task(build, store, t, header, user_id, task_id) ==
    LET auth == get_current_user(build, header, t)
        owner == validate_user_ownership(user_id, auth.value)
        found == SelectByIdAndOwner(store, UUID(task_id), UUID(owner.value))
        removed == [i \in DOMAIN store \ {UUID(task_id)} |-> store[i]]
    IN  IF ~auth.ok THEN Done(auth.resp, store)
        ELSE IF ~owner.ok THEN Done(owner.resp, store)
        ELSE IF ~IsUUID(task_id) THEN Done(BadTaskId, store)
        ELSE IF found = {} THEN Done(TaskNotFound, store)
        ELSE Done(Response(204, "", "", FALSE, <<>>, <<>>, <<>>), removed)

\* ------------------------------------------- the two halves of a handler
(* update_task and delete_task read the row with a select and write at     *)
(* session.commit(); between the two another worker may commit.  The       *)
(* object loaded keeps the values read; the assignments of the handler     *)
(* change it in memory.                                                    *)
TaskColumns == {"title", "description", "completed", "updated_at"}

(* session.commit() of a changed object: UPDATE tasks SET the columns      *)
(* whose value differs from the value loaded WHERE id = the primary key;   *)
(* no row matched is a StaleDataError, which no handler catches.           *)
session_commit_update(store, id, loaded, assigned) ==
    IF id \notin DOMAIN store
    THEN Done(internal_error_handler, store)
    ELSE LET row == [c \in DOMAIN store[id] |->
                       IF c \in TaskColumns /\ assigned[c] # loaded[c]
                       THEN assigned[c] ELSE store[id][c]]
             saved == [store EXCEPT ![id] = row]
         IN  Done(Response(200, "", "", FALSE, <<TaskResponse(saved, id)>>,
                           <<>>, <<>>), saved)

\* session.commit() after session.delete(task): DELETE WHERE id = the key
session_commit_delete(store, id) ==
    Done(Response(204, "", "", FALSE, <<>>, <<>>, <<>>),
         [i \in DOMAIN store \ {id} |-> store[i]])

\* ----------------------------------------------------------- the schema
\* tasks.user_id REFERENCES users(id) ON DELETE CASCADE: the rows that go
\* with the user, and the rows that stay
OwnedRows(store, id) == {i \in DOMAIN store : store[i].user_id = id}
OnDeleteCascade(store, id) ==
    [i \in DOMAIN store \ OwnedRows(store, id) |-> store[i]]

\* DELETE FROM users WHERE id = ...; ok is FALSE for a ForeignKeyViolation
delete_user(build, rows, store, id) ==
    LET rest == {u \in rows : u.id # id}
    IN  IF build.cascade
        THEN [ok |-> TRUE, users |-> rest, tasks |-> OnDeleteCascade(store, id)]
        ELSE IF OwnedRows(store, id) # {}
        THEN [ok |-> FALSE, users |-> rows, tasks |-> store]
        ELSE [ok |-> TRUE, users |-> rest, tasks |-> store]

\* ------------------------------------------------------------ Auth Service
\* a validator that lets a password of seven characters through
SignupRequestValid_seven(password) ==
    PwLen(password) >= MIN_PASSWORD_LENGTH - 1

\* SignupRequest: validate_password_length
SignupRequestValid(password) == PwLen(password) >= MIN_PASSWORD_LENGTH

\* select(User).where(User.email == email)
SelectByEmail(rows, email) == {u \in rows : u.email = email}

AuthResponse(status, user, token) ==
    Response(status, "", "", FALSE, <<>>, <<>>,
             <<[user_id |-> Str(user.id), email |-> user.email,
                token |-> token, created_at |-> user.created_at]>>)

EmailExists == HTTPException(422, "Email already exists")
InvalidCredentials == HTTPException(401, "Invalid email or password")
CreateFailed == HTTPException(500, "Failed to create user account")

(* signup up to the commit: the request model, the email pre-check, the    *)
(* hash and the User(...) constructor (uuid4, utcnow).  ok means the       *)
(* handler goes on to the insert with the row built.                       *)
signup_prepare(build, rows, t, email, password, salt, newId) ==
    LET hashed == hash_password(build, password, salt)
        row == [id |-> newId, email |-> email,
                password_hash |-> hashed.digest, created_at |-> t]
    IN  IF ~SignupRequestValid(password)
        THEN [ok |-> FALSE, resp |-> RequestValidationError, row |-> row]
        ELSE IF SelectByEmail(rows, email) # {}
        THEN [ok |-> FALSE, resp |-> EmailExists, row |-> row]
        ELSE IF hashed.raised
        THEN [ok |-> FALSE, resp |-> internal_error_handler, row |-> row]
        ELSE [ok |-> TRUE, resp |-> Error(200, "", "", FALSE), row |-> row]

\* a commit into a table without the unique index on email
signup_commit_no_index(rows, row, dbFails, t1, t2) ==
    LET token == create_access_token(Str(row.id), row.email, DefaultTtl,
                                     t1, t2)
    IN  IF dbFails
        THEN [resp |-> CreateFailed, users |-> rows, token |-> <<>>]
        ELSE [resp |-> AuthResponse(201, row, token),
              users |-> rows \cup {row}, token |-> <<token>>]

\* a commit whose IntegrityError falls through to the general handler
signup_commit_internal(rows, row, dbFails, t1, t2) ==
    LET token == create_access_token(Str(row.id), row.email, DefaultTtl,
                                     t1, t2)
    IN  IF SelectByEmail(rows, row.email) # {} \/ dbFails
        THEN [resp |-> CreateFailed, users |-> rows, token |-> <<>>]
        ELSE [resp |-> AuthResponse(201, row, token),
              users |-> rows \cup {row}, token |-> <<token>>]

\* a signup that makes the token ahead of the commit and returns it anyway
signup_commit_token_first(rows, row, dbFails, t1, t2) ==
    LET token == create_access_token(Str(row.id), row.email, DefaultTtl,
                                     t1, t2)
    IN  IF SelectByEmail(rows, row.email) # {}
        THEN [resp |-> EmailExists, users |-> rows, token |-> <<token>>]
        ELSE IF dbFails
        THEN [resp |-> CreateFailed, users |-> rows, token |-> <<token>>]
        ELSE [resp |-> AuthResponse(201, row, token),
              users |-> rows \cup {row}, token |-> <<token>>]

\* a signup that answers a failed commit without rolling back
signup_commit_no_rollback(rows, row, dbFails, t1, t2) ==
    LET token == create_access_token(Str(row.id), row.email, DefaultTtl,
                                     t1, t2)
    IN  IF SelectByEmail(rows, row.email) # {}
        THEN [resp |-> EmailExists, users |-> rows, token |-> <<>>]
        ELSE IF dbFails
        THEN [resp |-> CreateFailed, users |-> rows \cup {row},
              token |-> <<>>]
        ELSE [resp |-> AuthResponse(201, row, token),
              users |-> rows \cup {row}, token |-> <<token>>]

(* signup from session.commit() on: the unique index on users.email        *)
(* decides; dbFails is any other failure of the commit.  t1, t2 are the    *)
(* clock readings of create_access_token.                                  *)
signup_commit(rows, row, dbFails, t1, t2) ==
    LET token == create_access_token(Str(row.id), row.email, DefaultTtl,
                                     t1, t2)
    IN  IF SelectByEmail(rows, row.email) # {}          \* IntegrityError
        THEN [resp |-> EmailExists, users |-> rows, token |-> <<>>]
        ELSE IF dbFails
        THEN [resp |-> CreateFailed, users |-> rows, token |-> <<>>]
        ELSE [resp |-> AuthResponse(201, row, token),
              users |-> rows \cup {row}, token |-> <<token>>]

\* a signin whose select has lost its WHERE clause
signin_any_row(build, rows, email, password, t1, t2) ==
    LET found == rows
        user == CHOOSE u \in found : \A v \in found : v.id >= u.id
        checked == verify_password(build, password, user.password_hash)
        token == create_access_token(Str(user.id), user.email, DefaultTtl,
                                     t1, t2)
    IN  IF found = {}
        THEN [resp |-> InvalidCredentials, token |-> <<>>, uid |-> None]
        ELSE IF checked.raised
        THEN [resp |-> internal_error_handler, token |-> <<>>, uid |-> None]
        ELSE IF ~checked.ok
        THEN [resp |-> InvalidCredentials, token |-> <<>>, uid |-> None]
        ELSE [resp |-> AuthResponse(200, user, token), token |-> <<token>>,
              uid |-> Str(user.id)]

signin(build, rows, email, password, t1, t2) ==
    LET found == SelectByEmail(rows, email)
        user == CHOOSE u \in found : TRUE
        checked == verify_password(build, password, user.password_hash)
        token == create_access_token(Str(user.id), user.email, DefaultTtl,
                                     t1, t2)
    IN  IF found = {}
        THEN [resp |-> InvalidCredentials, token |-> <<>>, uid |-> None]
        ELSE IF checked.raised
        THEN [resp |-> internal_error_handler, token |-> <<>>, uid |-> None]
        ELSE IF ~checked.ok
        THEN [resp |-> InvalidCredentials, token |-> <<>>, uid |-> None]
        ELSE [resp |-> AuthResponse(200, user, token), token |-> <<token>>,
              uid |-> Str(user.id)]

\* =================================================================== state
(* build: the releases of fastapi and bcrypt this process runs on.  now:    *)
(* the clock, in ticks.  users: rows of the users table.  tasks: rows of   *)
(* the tasks table, by id.  pending: per signup request in flight, the row *)
(* it is about to insert.  issued: every token create_access_token has     *)
(* returned, for whom, when (its first clock reading) and the token.       *)
(* last: the request served last and its response.                         *)
(* retired: the ids of the rows deleted so far;  uuid4 returns none of     *)
(* them again.  inflight: per worker, the update or delete it is serving   *)
(* between its select and its commit.                                      *)
VARIABLES build, now, users, tasks, pending, issued, last, retired, inflight,
          extracted

vars ==
    <<build, now, users, tasks, pending, issued, last, retired, settings,
      inflight,
      extracted>>

Procs == 1 .. MaxProcs

Min(S) == CHOOSE x \in S : \A y \in S : x <= y

\* the instants the clock visits: a multiple of the ttl, a tick before or after
ClockValues ==
    {n \in {e * DefaultTtl + k : e \in 0 .. MaxEpoch, k \in {0 - 1, 0, 1}} :
        n >= 0}

NoRow == [id |-> GhostUUID, email |-> NoEmail, password_hash |-> NoDigest,
          created_at |-> 0]
Idle == [pc |-> "idle", row |-> NoRow]

UserIds == {u.id : u \in users}

FreshUserId ==
    LET free == UserUUIDs \ (UserIds \cup retired \cup
                    {pending[p].row.id : p \in {q \in Procs : pending[q].pc = "insert"}})
    IN  IF free = {} THEN GhostUUID ELSE Min(free)

FreshTaskId ==
    LET free == TaskUUIDs \ (DOMAIN tasks \cup retired)
    IN  IF free = {} THEN GhostUUID ELSE Min(free)

\* ---------------------------------------------------------------- requests
NoPayload == [sub |-> None, exp |-> 0, iat |-> 0, email |-> NoEmail]
Garbage == [wf |-> FALSE, payload |-> NoPayload,
            sig |-> Sign(NoPayload, OtherKey)]

\* an issued token with one member of its payload altered, or re-signed
Tampered(token) ==
    {[token EXCEPT !.payload.sub = Str(u)] :
        u \in UserUUIDs \ {UUID(token.payload.sub)}}
    \cup {[token EXCEPT !.payload.exp = @ + JWT_EXPIRATION_HOURS * SecondsPerHour]}
    \cup {[token EXCEPT !.sig = Sign(token.payload, OtherKey)]}

Grant(uid, at, token) == [uid |-> uid, at |-> at, token |-> token]
Grants(uid, at, token) == {Grant(uid, at, token[i]) : i \in DOMAIN token}
Tokens == {g.token : g \in issued}

\* the tokens of the first user, and all that a client can make of them
Own == {k \in Tokens : UUID(k.payload.sub) = Min(UserUUIDs)}
Presentable == Tokens \cup UNION {Tampered(k) : k \in Own} \cup {Garbage}

Headers ==
    {Header("", FALSE, Garbage), Header("Bearer", FALSE, Garbage)}
    \cup {Header("Bearer", TRUE, k) : k \in Presentable}
    \cup {Header(sch, TRUE, k) : sch \in {"bearer", "Basic"}, k \in Own}

URLUserIds ==
    {Str(u) : u \in UserUUIDs} \cup {Upper(Min(UserUUIDs)), Str(GhostUUID), BadStr}

URLTaskIds == {Str(i) : i \in TaskUUIDs} \cup {Str(GhostUUID), BadStr}

(* The members of a request a route reads only after a check has passed    *)
(* are drawn only when it has: the path after the credentials, the task id *)
(* after the path.                                                         *)
PathsAfter(header) ==
    IF get_current_user(build, header, now).ok THEN URLUserIds ELSE {BadStr}

TaskIdsAfter(header, user_id) ==
    LET auth == get_current_user(build, header, now)
    IN  IF auth.ok /\ validate_user_ownership(user_id, auth.value).ok
        THEN URLTaskIds ELSE {BadStr}

Body(title, description, completed) ==
    [title |-> title, description |-> description, completed |-> completed]

CreateBodies == {Body("a", OMIT, OMIT), Body("", "d", OMIT)}

UpdateBodies == {Body(OMIT, OMIT, "true"), Body("", OMIT, "true")}

(* Two workers, each serving one update or delete of the first task in     *)
(* two halves.  A request in flight: the handler, its header and body, the *)
(* clock it read, the row it loaded and the row as the handler left it in  *)
(* memory; seq is the place of its commit among the commits, 0 for none.   *)
Workers == {1, 2}
RaceTask == Min(TaskUUIDs)
RaceBodies ==
    {Body("b", OMIT, OMIT), Body("a", OMIT, "true"), Body(OMIT, "e", OMIT),
     Body(OMIT, OMIT, "true")}
NoRequest ==
    [pc |-> "idle", op |-> "", header |-> Header("", FALSE, Garbage),
     body |-> Body(OMIT, OMIT, OMIT), at |-> 0, loaded |-> <<>>,
     assigned |-> <<>>, seq |-> 0, status |-> 0]

SignupPasswords == {Pw("seven77", ""), Pw("eight888", ""), Pw("full72", "x")}
SigninPasswords ==
    {Pw("eight888", ""), Pw("other888", ""), Pw("full72", "x"),
     Pw("full72", "y")}

(* What is kept of the request served last: the route, the status of the  *)
(* response and the kind of request it was.                                *)
Served(op, note, resp) == [op |-> op, note |-> note, status |-> resp.status]

\* the kind of a task request: the first thing about it that is not in order
TaskNote(header, user_id, task_id) ==
    LET sub == decode_access_token(header.cred, now).user_id
    IN  IF header.scheme = "" \/ ~header.hasCred THEN "no-credentials"
        ELSE IF Lower(header.scheme) # "bearer" THEN "other-scheme"
        ELSE IF sub = None THEN "token-rejected"
        ELSE IF ~IsUUID(user_id) THEN "url-malformed"
        ELSE IF user_id # sub THEN "url-mismatch"
        ELSE IF ~IsUUID(task_id) THEN "task-malformed"
        ELSE IF UUID(task_id) \in retired THEN "task-deleted"
        ELSE IF UUID(task_id) \notin DOMAIN tasks THEN "task-absent"
        ELSE IF tasks[UUID(task_id)].user_id = UUID(sub) THEN "task-own"
        ELSE "task-foreign"

CollectionNote(header, user_id) ==
    LET n == TaskNote(header, user_id, BadStr)
    IN  IF n = "task-malformed" THEN "collection" ELSE n

\* -------------------------------------------------------------------- Init
Init ==
    /\ settings = Settings("server-secret").value
    /\ inflight = [p \in Workers |-> NoRequest]
    /\ extracted = NoExtract
    /\ build \in Builds
    /\ now = 0
    /\ users = {}
    /\ tasks = <<>>
    /\ pending = [p \in Procs |-> Idle]
    /\ retired = {}
    /\ issued = {}
    /\ last = [op |-> "boot", note |-> "", status |-> 200]

\* ----------------------------------------------------------------- actions
Tick ==
    /\ \E n \in ClockValues : n > now /\ now' = n
    /\ UNCHANGED <<build, users, tasks, pending, issued, last, retired, settings, inflight,
                   extracted>>

\* POST /api/auth/signup, up to the insert
SignupBegin(p) ==
    /\ pending[p].pc = "idle"
    /\ \E email \in Emails, password \in SignupPasswords, salt \in Salts :
         LET r == signup_prepare(build, users, now, email, password, salt,
                                 FreshUserId)
         IN  /\ r.ok => r.row.id \in UserUUIDs
             /\ IF r.ok
                THEN /\ pending' = [pending EXCEPT
                                      ![p] = [pc |-> "insert", row |-> r.row]]
                     /\ UNCHANGED last
                ELSE /\ last' = Served("signup",
                                       IF SelectByEmail(users, email) # {}
                                       THEN "email-taken" ELSE "email-free",
                                       r.resp)
                     /\ UNCHANGED pending
    /\ UNCHANGED <<build, now, users, tasks, issued, retired, settings, inflight,
                   extracted>>

\* POST /api/auth/signup, the commit and what follows it
SignupCommit(p) ==
    /\ pending[p].pc = "insert"
    /\ \E dbFails \in BOOLEAN, t2 \in {now, now + 1} :
         LET r == signup_commit(users, pending[p].row, dbFails, now, t2)
             new == Grants(Str(pending[p].row.id), now, r.token)
         IN  /\ t2 \in ClockValues
             /\ Cardinality(issued \cup new) <= MaxTokens
             /\ users' = r.users
             /\ issued' = issued \cup new
             /\ now' = IF r.token = <<>> THEN now ELSE t2
             /\ last' = Served("signup",
                               IF SelectByEmail(users, pending[p].row.email) # {}
                               THEN "email-taken-late" ELSE "email-free",
                               r.resp)
    /\ pending' = [pending EXCEPT ![p] = Idle]
    /\ UNCHANGED <<build, tasks, retired, settings, inflight, extracted>>

SigninNote(email, password) ==
    IF SelectByEmail(users, email) = {} THEN "unregistered"
    ELSE IF \E u \in SelectByEmail(users, email) :
              verify_password(build, password, u.password_hash).ok
    THEN "password-accepted"
    ELSE "password-rejected"

\* POST /api/auth/signin
Signin ==
    /\ \E email \in Emails, password \in SigninPasswords,
          t2 \in {now, now + 1} :
         LET r == signin(build, users, email, password, now, t2)
             new == Grants(r.uid, now, r.token)
         IN  /\ t2 \in ClockValues
             /\ Cardinality(issued \cup new) <= MaxTokens
             /\ issued' = issued \cup new
             /\ now' = IF r.token = <<>> THEN now ELSE t2
             /\ last' = Served("signin", SigninNote(email, password), r.resp)
    /\ UNCHANGED <<build, users, tasks, pending, retired, settings, inflight,
                   extracted>>

\* GET /api/users/{user_id}/tasks
ListTasks ==
    /\ \E header \in Headers : \E user_id \in PathsAfter(header) :
         LET r == list_tasks(build, tasks, now, header, user_id)
         IN  /\ tasks' = r.tasks
             /\ last' = Served("list_tasks", CollectionNote(header, user_id),
                               r.resp)
    /\ UNCHANGED <<build, now, users, pending, issued, retired, settings, inflight,
                   extracted>>

\* POST /api/users/{user_id}/tasks
CreateTask ==
    /\ \E header \in Headers, body \in CreateBodies :
       \E user_id \in PathsAfter(header) :
         LET r == create_task(build, tasks, UserIds, now, header, user_id,
                              body, FreshTaskId)
         IN  /\ DOMAIN r.tasks \subseteq TaskUUIDs
             /\ tasks' = r.tasks
             /\ last' = Served("create_task", CollectionNote(header, user_id),
                               r.resp)
    /\ UNCHANGED <<build, now, users, pending, issued, retired, settings, inflight,
                   extracted>>

\* GET /api/users/{user_id}/tasks/{task_id}
GetTask ==
    /\ \E header \in Headers : \E user_id \in PathsAfter(header) :
       \E task_id \in TaskIdsAfter(header, user_id) :
         LET r == get_task(build, tasks, now, header, user_id, task_id)
         IN  /\ tasks' = r.tasks
             /\ last' = Served("get_task", TaskNote(header, user_id, task_id),
                               r.resp)
    /\ UNCHANGED <<build, now, users, pending, issued, retired, settings, inflight,
                   extracted>>

\* PUT /api/users/{user_id}/tasks/{task_id}
UpdateTask ==
    /\ \E header \in Headers, body \in UpdateBodies :
       \E user_id \in PathsAfter(header) :
       \E task_id \in TaskIdsAfter(header, user_id) :
         LET r == update_task(build, tasks, now, header, user_id, task_id,
                              body)
         IN  /\ tasks' = r.tasks
             /\ last' = Served("update_task",
                               TaskNote(header, user_id, task_id), r.resp)
    /\ UNCHANGED <<build, now, users, pending, issued, retired, settings, inflight,
                   extracted>>

\* DELETE /api/users/{user_id}/tasks/{task_id}
DeleteTask ==
    /\ \E header \in Headers : \E user_id \in PathsAfter(header) :
       \E task_id \in TaskIdsAfter(header, user_id) :
         LET r == delete_task(build, tasks, now, header, user_id, task_id)
         IN  /\ tasks' = r.tasks
             /\ retired' = retired \cup (DOMAIN tasks \ DOMAIN r.tasks)
             /\ last' = Served("delete_task",
                               TaskNote(header, user_id, task_id), r.resp)
    /\ UNCHANGED <<build, now, users, pending, issued, settings, inflight,
                   extracted>>

\* PUT or DELETE of the first task by its owner, up to the select
TaskBegin(p) ==
    /\ inflight[p].pc = "idle"
    /\ \E header \in Headers, op \in {"update_task", "delete_task"},
          body \in RaceBodies :
         LET me == get_current_user(build, header, now)
             r == IF op = "update_task"
                  THEN update_task(build, tasks, now, header, me.value,
                                   Str(RaceTask), body)
                  ELSE delete_task(build, tasks, now, header, me.value,
                                   Str(RaceTask))
             req == [NoRequest EXCEPT !.op = op, !.header = header,
                                      !.body = IF op = "update_task" THEN body
                                               ELSE NoRequest.body,
                                      !.at = now]
         IN  /\ me.ok
             /\ op = "delete_task" => body = Body(OMIT, OMIT, "true")
             /\ IF r.resp.status >= 400
                THEN /\ inflight' = [inflight EXCEPT ![p] =
                            [req EXCEPT !.pc = "done",
                                        !.status = r.resp.status]]
                     /\ last' = Served(op, "refused-at-select", r.resp)
                ELSE /\ inflight' = [inflight EXCEPT ![p] =
                            [req EXCEPT !.pc = "loaded",
                                        !.loaded = <<tasks[RaceTask]>>,
                                        !.assigned =
                                            IF op = "update_task"
                                            THEN <<r.tasks[RaceTask]>>
                                            ELSE <<>>]]
                     /\ UNCHANGED last
    /\ UNCHANGED <<build, now, users, tasks, pending, issued, retired,
                   settings, extracted>>

\* the same request from session.commit() on
TaskCommit(p) ==
    /\ inflight[p].pc = "loaded"
    /\ LET q == inflight[p]
           r == IF q.op = "update_task"
                THEN session_commit_update(tasks, RaceTask, q.loaded[1],
                                           q.assigned[1])
                ELSE session_commit_delete(tasks, RaceTask)
           seq == 1 + Cardinality({w \in Workers : inflight[w].seq > 0})
       IN  /\ tasks' = r.tasks
           /\ retired' = retired \cup (DOMAIN tasks \ DOMAIN r.tasks)
           /\ inflight' = [inflight EXCEPT ![p] =
                  [q EXCEPT !.pc = "done", !.status = r.resp.status,
                            !.seq = IF r.resp.status >= 400 THEN 0 ELSE seq]]
           /\ last' = Served(q.op,
                             IF r.resp.status >= 400 THEN "row-gone-at-commit"
                             ELSE IF seq = 1 THEN "first-commit"
                             ELSE "later-commit",
                             r.resp)
    /\ UNCHANGED <<build, now, users, pending, issued, settings, extracted>>

\* DELETE FROM users WHERE id = ..., run against the database
DeleteUser ==
    /\ \E id \in UserIds :
         LET r == delete_user(build, users, tasks, id)
         IN  /\ users' = r.users
             /\ tasks' = r.tasks
             /\ retired' = retired \cup (DOMAIN tasks \ DOMAIN r.tasks)
                                   \cup (UserIds \ {u.id : u \in r.users})
             /\ last' = [op |-> "delete_user",
                         note |-> IF OwnedRows(tasks, id) = {}
                                  THEN "no-tasks" ELSE "with-tasks",
                         status |-> IF r.ok THEN 200 ELSE 500]
    /\ UNCHANGED <<build, now, pending, issued, settings, inflight, extracted>>

\* a route that depends on get_current_user_optional
OptionalAuth ==
    /\ \E header \in Headers :
         LET r == get_current_user_optional(header, now)
         IN  last' = Served("optional_auth",
                            IF ~HTTPBearerOptional(header).present
                            THEN "no-credentials"
                            ELSE IF decode_access_token(header.cred, now).user_id
                                      = None
                            THEN "token-rejected"
                            ELSE "token-accepted",
                            r.resp)
    /\ UNCHANGED <<build, now, users, tasks, pending, issued, retired, settings, inflight,
                   extracted>>

AuthNext ==
    \/ Tick
    \/ \E p \in Procs : SignupBegin(p)
    \/ \E p \in Procs : SignupCommit(p)
    \/ Signin

TaskNext ==
    \/ ListTasks
    \/ CreateTask
    \/ GetTask
    \/ UpdateTask
    \/ DeleteTask

Next ==
    \/ AuthNext
    \/ TaskNext
    \/ OptionalAuth
    \/ DeleteUser
    \/ \E p \in Workers : TaskBegin(p)
    \/ \E p \in Workers : TaskCommit(p)

Spec == Init /\ [][Next]_vars

\* ------------------------------------------------- the auth service alone
InitAuth == Init /\ ~build.legacyBearer /\ build.cascade

NextAuth ==
    \/ \E p \in Procs : SignupBegin(p)
    \/ \E p \in Procs : SignupCommit(p)
    \/ Signin

SpecAuth == InitAuth /\ [][NextAuth]_vars

\* ---------------------------------- the task endpoints, two users signed up
(* The task endpoints are followed from the state two signups at time 0   *)
(* leave behind, in a build whose HTTPBearer answers 401; SpecToken below  *)
(* has both kinds of build.                                                *)
SignedUp(id, email, t) ==
    signup_commit({}, signup_prepare(build, {}, t, email, Pw("eight888", ""),
                                     "s1", id).row, FALSE, t, t)

InitTasks ==
    /\ settings = Settings("server-secret").value
    /\ inflight = [p \in Workers |-> NoRequest]
    /\ extracted = NoExtract
    /\ build \in Builds
    /\ build.cascade
    /\ ~build.strictBcrypt
    /\ ~build.legacyBearer
    /\ now = 0
    /\ LET a == SignedUp(1, "a@x.com", 0)
           b == SignedUp(2, "b@x.com", 0)
       IN  /\ users = a.users \cup b.users
           /\ issued = Grants(Str(1), 0, a.token) \cup Grants(Str(2), 0, b.token)
           /\ last = Served("signup", "email-free", b.resp)
    /\ tasks = <<>>
    /\ pending = [p \in Procs |-> Idle]
    /\ retired = {}

SpecTasks == InitTasks /\ [][TaskNext]_vars

\* ------------------------------------- tokens over time, one task endpoint
InitToken ==
    /\ settings = Settings("server-secret").value
    /\ inflight = [p \in Workers |-> NoRequest]
    /\ extracted = NoExtract
    /\ build \in Builds
    /\ build.cascade
    /\ ~build.strictBcrypt
    /\ now = 0
    /\ LET a == SignedUp(1, "a@x.com", 0)
           b == SignedUp(2, "b@x.com", 0)
           c == create_task(build, <<>>, {1, 2}, 0,
                            Header("Bearer", TRUE, a.token[1]), Str(1),
                            Body("a", OMIT, OMIT), Min(TaskUUIDs))
       IN  /\ users = a.users \cup b.users
           /\ issued = Grants(Str(1), 0, a.token) \cup Grants(Str(2), 0, b.token)
           /\ tasks = c.tasks
           /\ last = Served("create_task", "collection", c.resp)
    /\ pending = [p \in Procs |-> Idle]
    /\ retired = {}

NextToken ==
    \/ Tick
    \/ Signin
    \/ ListTasks
    \/ OptionalAuth

SpecToken == InitToken /\ [][NextToken]_vars

\* ------------------------------------------- one task, updated as time goes
(* Two users signed up at time 0, each with one task created then, in a   *)
(* build whose HTTPBearer answers 401.                                     *)
InitUpdate ==
    /\ settings = Settings("server-secret").value
    /\ inflight = [p \in Workers |-> NoRequest]
    /\ extracted = NoExtract
    /\ build \in Builds
    /\ build.cascade
    /\ ~build.strictBcrypt
    /\ ~build.legacyBearer
    /\ now = 0
    /\ LET a == SignedUp(1, "a@x.com", 0)
           b == SignedUp(2, "b@x.com", 0)
           c == create_task(build, <<>>, {1, 2}, 0,
                            Header("Bearer", TRUE, a.token[1]), Str(1),
                            Body("a", OMIT, OMIT), Min(TaskUUIDs))
           d == create_task(build, c.tasks, {1, 2}, 0,
                            Header("Bearer", TRUE, b.token[1]), Str(2),
                            Body("a", OMIT, OMIT),
                            Min(TaskUUIDs \ DOMAIN c.tasks))
       IN  /\ users = a.users \cup b.users
           /\ issued = Grants(Str(1), 0, a.token) \cup Grants(Str(2), 0, b.token)
           /\ tasks = d.tasks
           /\ last = Served("create_task", "collection", d.resp)
    /\ pending = [p \in Procs |-> Idle]
    /\ retired = {}

NextUpdate ==
    \/ Tick
    \/ UpdateTask

SpecUpdate == InitUpdate /\ [][NextUpdate]_vars

\* ------------------------------------------- tasks created as time goes
(* Two users signed up at time 0 and no task yet; tasks are created and    *)
(* listed while the clock advances.                                        *)
InitList == InitTasks

NextList ==
    \/ Tick
    \/ CreateTask
    \/ ListTasks

\* ----------------------------------------------- header values, one by one
(* extract_token_from_header is a helper no route calls; it is applied to  *)
(* one header value after the other.                                       *)
ExtractToken ==
    /\ \E h \in HeaderValues :
         extracted' = [header |-> h, token |-> extract_token_from_header(h)]
    /\ UNCHANGED <<build, now, users, tasks, pending, issued, last, retired,
                   settings, inflight>>

InitHeader == InitTasks

NextHeader == ExtractToken

SpecHeader == InitHeader /\ [][NextHeader]_vars

SpecList == InitList /\ [][NextList]_vars

\* ------------------------------- requests that fail, among some that do not
(* One user signed up at time 0 with one task created then; the other      *)
(* email is free.  Signups, signins and task requests follow.              *)
InitFrame ==
    /\ settings = Settings("server-secret").value
    /\ inflight = [p \in Workers |-> NoRequest]
    /\ extracted = NoExtract
    /\ build \in Builds
    /\ build.cascade
    /\ ~build.legacyBearer
    /\ now = 0
    /\ LET a == SignedUp(1, "a@x.com", 0)
           c == create_task(build, <<>>, {1}, 0,
                            Header("Bearer", TRUE, a.token[1]), Str(1),
                            Body("a", OMIT, OMIT), Min(TaskUUIDs))
       IN  /\ users = a.users
           /\ issued = Grants(Str(1), 0, a.token)
           /\ tasks = c.tasks
           /\ last = Served("create_task", "collection", c.resp)
    /\ pending = [p \in Procs |-> Idle]
    /\ retired = {}

NextFrame ==
    \/ \E p \in Procs : SignupBegin(p)
    \/ \E p \in Procs : SignupCommit(p)
    \/ Signin
    \/ ListTasks
    \/ GetTask
    \/ UpdateTask

SpecFrame == InitFrame /\ [][NextFrame]_vars

\* --------------------------------- users removed while the tasks are used
(* Two users signed up at time 0, in a build of either schema; users are   *)
(* deleted in the database while the task endpoints are called with the    *)
(* tokens issued at signup.                                                *)
InitSchema ==
    /\ settings = Settings("server-secret").value
    /\ inflight = [p \in Workers |-> NoRequest]
    /\ extracted = NoExtract
    /\ build \in Builds
    /\ ~build.strictBcrypt
    /\ ~build.legacyBearer
    /\ now = 0
    /\ LET a == SignedUp(1, "a@x.com", 0)
           b == SignedUp(2, "b@x.com", 0)
       IN  /\ users = a.users \cup b.users
           /\ issued = Grants(Str(1), 0, a.token) \cup Grants(Str(2), 0, b.token)
           /\ last = Served("signup", "email-free", b.resp)
    /\ tasks = <<>>
    /\ pending = [p \in Procs |-> Idle]
    /\ retired = {}

NextSchema ==
    \/ DeleteUser
    \/ CreateTask
    \/ ListTasks
    \/ GetTask

SpecSchema == InitSchema /\ [][NextSchema]_vars

\* ----------------------------------- two requests on one task, interleaved
\* the table the two requests start from: a task of each user, made at 0
RaceBase ==
    LET a == SignedUp(1, "a@x.com", 0)
        b == SignedUp(2, "b@x.com", 0)
        c == create_task(build, <<>>, {1, 2}, 0,
                         Header("Bearer", TRUE, a.token[1]), Str(1),
                         Body("a", OMIT, OMIT), Min(TaskUUIDs))
    IN  create_task(build, c.tasks, {1, 2}, 0,
                    Header("Bearer", TRUE, b.token[1]), Str(2),
                    Body("a", OMIT, OMIT),
                    Min(TaskUUIDs \ DOMAIN c.tasks)).tasks

InitRace == InitUpdate /\ tasks = RaceBase

NextRace ==
    \/ Tick
    \/ \E p \in Workers : TaskBegin(p)
    \/ \E p \in Workers : TaskCommit(p)

SpecRace == InitRace /\ [][NextRace]_vars

\* ------------------------------------------------- the start of the process
(* The application before core/config.py is imported: no settings object.  *)
(* Startup imports it with whatever the environment holds; if Settings()   *)
(* raises the process ends and may be started again.  Requests are served  *)
(* only once the settings are loaded.                                      *)
InitStartup ==
    /\ settings = NoSettings
    /\ inflight = [p \in Workers |-> NoRequest]
    /\ extracted = NoExtract
    /\ build \in Builds
    /\ build.cascade
    /\ ~build.strictBcrypt
    /\ ~build.legacyBearer
    /\ now = 0
    /\ users = {}
    /\ tasks = <<>>
    /\ pending = [p \in Procs |-> Idle]
    /\ retired = {}
    /\ issued = {}
    /\ last = [op |-> "down", note |-> "", status |-> 0]

Startup ==
    /\ ~settings.loaded
    /\ \E secret \in Secrets :
         LET r == Settings(secret)
         IN  /\ settings' = r.value
             /\ last' = [op |-> "startup",
                         note |-> IF secret = "" THEN "secret-unset"
                                  ELSE IF SecretBytes(secret) < MIN_SECRET_LENGTH
                                  THEN "secret-short"
                                  ELSE IF SecretChars(secret) < MIN_SECRET_LENGTH
                                  THEN "secret-few-characters"
                                  ELSE "secret-long-enough",
                         status |-> IF r.raised THEN 500 ELSE 200]
    /\ UNCHANGED <<build, now, users, tasks, pending, issued, retired, inflight,
                   extracted>>

NextStartup ==
    \/ Startup
    \/ settings.loaded /\ \E p \in Procs : SignupBegin(p)
    \/ settings.loaded /\ \E p \in Procs : SignupCommit(p)
    \/ settings.loaded /\ Signin
    \/ settings.loaded /\ ListTasks

SpecStartup == InitStartup /\ [][NextStartup]_vars

\* ============================================================== properties
Unauthorized == HTTPException(401, "Invalid or expired authentication token")
Forbidden ==
    HTTPException(403, "You do not have permission to access this resource")

\* the tasks of one owner
OwnedBy(store, user_uuid) ==
    [i \in SelectByOwner(store, user_uuid) |-> store[i]]

\* the Authorization headers the access guard lets in
Authentic == {h \in Headers : get_current_user(build, h, now).ok}

\* ---------------------------------------------------------------------- C1
\* the tasks in the response are the caller's, the tasks of others stay
Isolated(me, r) ==
    /\ \A k \in DOMAIN r.resp.tasks : r.resp.tasks[k].user_id = UUID(me)
    /\ \A i \in DOMAIN tasks :
          tasks[i].user_id # UUID(me) =>
            i \in DOMAIN r.tasks /\ r.tasks[i] = tasks[i]

(* C1: in every reachable state, whatever user_id and task_id the URL of a *)
(* list, get, update or delete request carries, the tasks in the response  *)
(* all belong to the identity its token authenticates, and every task of   *)
(* anybody else is in the table afterwards, unchanged.                     *)
TaskIsolation ==
    \A header \in Authentic, user_id \in URLUserIds :
        LET me == get_current_user(build, header, now).value
        IN  /\ Isolated(me, list_tasks(build, tasks, now, header, user_id))
            /\ \A task_id \in URLTaskIds :
                  /\ Isolated(me, get_task(build, tasks, now, header, user_id,
                                           task_id))
                  /\ Isolated(me, delete_task(build, tasks, now, header,
                                              user_id, task_id))
                  /\ \A body \in UpdateBodies :
                        Isolated(me, update_task(build, tasks, now, header,
                                                 user_id, task_id, body))

\* an update or delete has been aimed at a task of another user, which is there
WitnessTaskIsolation ==
    /\ last.op \in {"update_task", "delete_task"}
    /\ last.note = "task-foreign"
    /\ \E i, j \in DOMAIN tasks : tasks[i].user_id # tasks[j].user_id

MismatchedPaths(me) ==
    {user_id \in URLUserIds : IsUUID(user_id) /\ UUID(user_id) # UUID(me)}

Refused(r) == r.resp = Forbidden /\ r.tasks = tasks

(* C3 as stated: every task request whose token authenticates as A and     *)
(* whose URL user_id names another user ends in Forbidden (403), whatever  *)
(* else it carries.                                                        *)
MismatchAlwaysForbidden ==
    \A header \in Authentic :
    \A user_id \in MismatchedPaths(get_current_user(build, header, now).value) :
        /\ Refused(list_tasks(build, tasks, now, header, user_id))
        /\ \A body \in CreateBodies :
              Refused(create_task(build, tasks, UserIds, now, header, user_id,
                                  body, FreshTaskId))
        /\ \A task_id \in URLTaskIds :
              /\ Refused(get_task(build, tasks, now, header, user_id, task_id))
              /\ Refused(delete_task(build, tasks, now, header, user_id,
                                     task_id))
              /\ \A body \in UpdateBodies :
                    Refused(update_task(build, tasks, now, header, user_id,
                                        task_id, body))

\* refused, or turned away before the ownership check for its body
RefusedAfterValidation(valid, r) ==
    IF valid THEN Refused(r)
    ELSE r.resp = RequestValidationError /\ r.tasks = tasks

(* C3, amended: a task request whose token authenticates as A and whose    *)
(* URL user_id names another user ends in Forbidden (403) and changes      *)
(* nothing, whether or not that user exists or has tasks and whether or    *)
(* not the task_id exists or is well-formed, provided the body of a create *)
(* or update passes request validation; a body that fails it is answered   *)
(* 422 before the ownership check runs.                                    *)
MismatchForbiddenAfterValidation ==
    \A header \in Authentic :
    \A user_id \in MismatchedPaths(get_current_user(build, header, now).value) :
        /\ Refused(list_tasks(build, tasks, now, header, user_id))
        /\ \A body \in CreateBodies :
              RefusedAfterValidation(TaskCreateValid(body),
                  create_task(build, tasks, UserIds, now, header, user_id,
                              body, FreshTaskId))
        /\ \A task_id \in URLTaskIds :
              /\ Refused(get_task(build, tasks, now, header, user_id, task_id))
              /\ Refused(delete_task(build, tasks, now, header, user_id,
                                     task_id))
              /\ \A body \in UpdateBodies :
                    RefusedAfterValidation(TaskUpdateValid(body),
                        update_task(build, tasks, now, header, user_id,
                                    task_id, body))

\* a request for the path of another user has been refused, tasks being there
WitnessMismatchForbidden ==
    /\ last.note = "url-mismatch"
    /\ last.status = 403
    /\ tasks # <<>>

\* --------------------------------------------------------------------- C10
(* C10: on every task endpoint a request without Authorization header, one *)
(* with another scheme and one whose token the Token Service rejects get   *)
(* the same Unauthorized (401) response.                                   *)
UnauthorizedUniform ==
    \A header \in Headers \ Authentic, user_id \in URLUserIds :
        /\ list_tasks(build, tasks, now, header, user_id).resp = Unauthorized
        /\ \A body \in CreateBodies :
              create_task(build, tasks, UserIds, now, header, user_id, body,
                          FreshTaskId).resp = Unauthorized
        /\ \A task_id \in URLTaskIds :
              /\ get_task(build, tasks, now, header, user_id, task_id).resp
                    = Unauthorized
              /\ delete_task(build, tasks, now, header, user_id, task_id).resp
                    = Unauthorized
              /\ \A body \in UpdateBodies :
                    update_task(build, tasks, now, header, user_id, task_id,
                                body).resp = Unauthorized

\* ---------------------------------------------------------------------- C4
(* C4: no two rows of the users table have the same email; a signup whose  *)
(* email a stored user already has is answered 422, the structured         *)
(* "Validation error" response when the request passes validation, and     *)
(* leaves the table as it was, at the pre-check and at the commit.         *)
UniqueEmails ==
    /\ \A u, v \in users : u.email = v.email => u = v
    /\ last.op = "signup" /\ last.note \in {"email-taken", "email-taken-late"}
          => last.status = 422
    /\ \A email \in Emails, password \in SignupPasswords, salt \in Salts :
          LET r == signup_prepare(build, users, now, email, password, salt,
                                  FreshUserId)
          IN  SelectByEmail(users, email) # {} =>
                /\ ~r.ok
                /\ r.resp.status = 422
                /\ SignupRequestValid(password) => r.resp = EmailExists
    /\ \A p \in Procs, dbFails \in BOOLEAN :
          LET r == signup_commit(users, pending[p].row, dbFails, now, now)
          IN  pending[p].pc = "insert"
              /\ SelectByEmail(users, pending[p].row.email) # {} =>
                r.resp = EmailExists /\ r.users = users /\ r.token = <<>>

\* a signup has just been refused at the pre-check for its email
WitnessUniqueEmails ==
    /\ last.op = "signup"
    /\ last.note = "email-taken"
    /\ last.status = 422
    /\ users # {}

\* ---------------------------------------------------------------------- C5
(* C5: when two signups with the same email have both passed the           *)
(* pre-check and neither has inserted, then in either order the first      *)
(* commit stores its row and answers 201 and the second gets the response  *)
(* of the pre-check path (422 "Validation error", not 500), stores nothing *)
(* and issues no token, so one row with that email exists afterwards.      *)
RaceOneWinner ==
    /\ last.note = "email-taken-late" => last.status = 422
    /\ \A p, q \in Procs :
          LET email == pending[p].row.email
              first == signup_commit(users, pending[p].row, FALSE, now, now)
              second(f) == signup_commit(first.users, pending[q].row, f,
                                         now, now)
              precheck == signup_prepare(build, first.users, now, email,
                                         Pw("eight888", ""), "s1", GhostUUID)
          IN  /\ p # q
              /\ pending[p].pc = "insert"
              /\ pending[q].pc = "insert"
              /\ pending[q].row.email = email
              /\ SelectByEmail(users, email) = {}
              => /\ first.resp.status = 201
                 /\ first.users = users \cup {pending[p].row}
                 /\ \A f \in BOOLEAN :
                       /\ second(f).resp = EmailExists
                       /\ second(f).resp = precheck.resp
                       /\ second(f).resp # CreateFailed
                       /\ second(f).users = first.users
                       /\ second(f).token = <<>>
                       /\ Cardinality(SelectByEmail(second(f).users, email)) = 1

\* the loser of a race has just been answered
WitnessRaceOneWinner ==
    /\ last.op = "signup"
    /\ last.note = "email-taken-late"
    /\ last.status = 422
    /\ users # {}

\* ---------------------------------------------------------------------- C6
(* C6: every signin that is not let in gets one and the same response,     *)
(* 401 with one message, whether its email is registered (and the password *)
(* wrong) or not.                                                          *)
SigninFailureUniform ==
    \A e1, e2 \in Emails, p1, p2 \in SigninPasswords :
        LET unknown == signin(build, users, e1, p1, now, now).resp
            wrong == signin(build, users, e2, p2, now, now).resp
        IN  /\ SelectByEmail(users, e1) = {}
            /\ SelectByEmail(users, e2) # {}
            /\ wrong.status # 200
            => unknown = InvalidCredentials /\ wrong = unknown

\* ---------------------------------------------------------------------- C7
Expiry(token) == token.payload.exp * TicksPerSecond

Elapsed(g, t) == t >= g.at + DefaultTtl

ExpiredRejected ==
    \A g \in issued :
        LET header == Header("Bearer", TRUE, g.token)
        IN  Elapsed(g, now) =>
              /\ decode_access_token(g.token, now)
                    = [raised |-> FALSE, user_id |-> None]
              /\ list_tasks(build, tasks, now, header, g.uid).resp
                    = Unauthorized
              /\ \A body \in CreateBodies :
                    create_task(build, tasks, UserIds, now, header, g.uid,
                                body, FreshTaskId).resp = Unauthorized
              /\ \A task_id \in URLTaskIds :
                    /\ get_task(build, tasks, now, header, g.uid,
                                task_id).resp = Unauthorized
                    /\ delete_task(build, tasks, now, header, g.uid,
                                   task_id).resp = Unauthorized
                    /\ \A body \in UpdateBodies :
                          update_task(build, tasks, now, header, g.uid,
                                      task_id, body).resp = Unauthorized

ExpiredForGood ==
    \A g \in issued :
        decode_access_token(g.token, now).user_id = None =>
          decode_access_token(g.token, now').user_id = None

(* C8: once the ttl of an issued token has elapsed, decode_access_token    *)
(* returns None for it and every task endpoint answers it with the 401     *)
(* response; and a token decode_access_token has returned None for gets    *)
(* None in every later state.                                              *)
ExpiredStaysInvalid == []ExpiredRejected /\ [][ExpiredForGood]_vars

\* a request has been turned away after the ttl of every issued token
WitnessExpiredStaysInvalid ==
    /\ issued # {}
    /\ \A g \in issued : Elapsed(g, now)
    /\ last.op = "list_tasks"
    /\ last.note = "token-rejected"
    /\ last.status = 401

\* ---------------------------------------------------------------------- C9
(* C9: decode_access_token raises for no token at no time: a malformed     *)
(* token, a token whose signature does not match its content (every issued *)
(* token with a member altered or re-signed under another key) and an      *)
(* expired token get None; a user id is returned only for a token whose    *)
(* signature matches and whose expiry lies ahead, and is its subject.      *)
DecodeNeverRaises ==
    \A k \in Presentable \cup UNION {Tampered(j) : j \in Tokens},
       t \in ClockValues :
        LET d == decode_access_token(k, t)
            signed == k.sig = Sign(k.payload, BETTER_AUTH_SECRET)
        IN  /\ ~d.raised
            /\ ~k.wf \/ ~signed \/ Expiry(k) <= t => d.user_id = None
            /\ d.user_id # None =>
                  k.wf /\ signed /\ t < Expiry(k) /\ d.user_id = k.payload.sub
            /\ k \notin Tokens => d.user_id = None

\* a token has been turned away while every issued token is in its ttl
WitnessDecodeNeverRaises ==
    /\ issued # {}
    /\ \A g \in issued : now < Expiry(g.token)
    /\ last.op = "list_tasks"
    /\ last.note = "token-rejected"
    /\ last.status = 401

\* --------------------------------------------------------------------- C11
(* C11: get_current_user_optional returns the absent identity for a        *)
(* request without credentials, and for a request whose Bearer token       *)
(* decode_access_token rejects (invalid, expired) it fails with the 401    *)
(* response instead of returning the absent identity.                      *)
OptionalRejectsBadToken ==
    \A header \in Headers :
        LET r == get_current_user_optional(header, now)
        IN  /\ ~HTTPBearerOptional(header).present => r = Pass(None)
            /\ HTTPBearerOptional(header).present
                /\ decode_access_token(header.cred, now).user_id = None
                => ~r.ok /\ r.resp = Unauthorized

\* --------------------------------------------------------------------- C12
BadUserId == HTTPException(422, "Invalid user_id format - must be valid UUID")

(* C12 as stated: the ownership check yields Forbidden for every URL       *)
(* user_id that is not the authenticated identity, a malformed one         *)
(* included.                                                               *)
EveryMismatchForbidden ==
    \A header \in Authentic, user_id \in URLUserIds :
        LET me == get_current_user(build, header, now).value
            r == validate_user_ownership(user_id, me)
        IN  user_id # me => ~r.ok /\ r.resp = Forbidden

(* C12, amended: the ownership check yields Forbidden (403) for every      *)
(* well-formed URL user_id whose spelling differs from the authenticated   *)
(* identity, and ValidationFailed (422) for a URL user_id that is not a    *)
(* well-formed identifier; it lets the authenticated identity itself       *)
(* through, and the endpoints answer as the check does.                    *)
MismatchForbiddenMalformedInvalid ==
    \A header \in Authentic, user_id \in URLUserIds :
        LET me == get_current_user(build, header, now).value
            r == validate_user_ownership(user_id, me)
            listed == list_tasks(build, tasks, now, header, user_id)
        IN  /\ user_id = me => r.ok /\ listed.resp.status = 200
            /\ IsUUID(user_id) /\ user_id # me =>
                  ~r.ok /\ r.resp = Forbidden /\ listed.resp = Forbidden
            /\ ~IsUUID(user_id) =>
                  ~r.ok /\ r.resp = BadUserId /\ listed.resp = BadUserId
            /\ listed.tasks = tasks

\* a request with a malformed user_id in its path has been answered
WitnessMismatchForbiddenMalformedInvalid ==
    /\ last.note = "url-malformed"
    /\ last.status = 422
    /\ last.op = "list_tasks"

\* --------------------------------------------------------------------- C13
\* bodies a client may send to create, one of them asking for completed
CreateAttempts == CreateBodies \cup {Body("a", "d", "true")}

(* C13: a create answered 201 leaves the table with exactly one row more;  *)
(* the new row's owner is the identity the token authenticates, its        *)
(* completed flag is false and its title and description are the           *)
(* request's, whatever path and body the client sent; every row that was   *)
(* there is unchanged; a create answered otherwise changes nothing.        *)
CreateStoresOneOwnTask ==
    \A header \in Authentic, user_id \in URLUserIds, body \in CreateAttempts :
        LET me == get_current_user(build, header, now).value
            r == create_task(build, tasks, UserIds, now, header, user_id,
                             body, FreshTaskId)
            new == DOMAIN r.tasks \ DOMAIN tasks
        IN  IF r.resp.status = 201
            THEN /\ Cardinality(new) = 1
                 /\ DOMAIN tasks \subseteq DOMAIN r.tasks
                 /\ \A i \in DOMAIN tasks : r.tasks[i] = tasks[i]
                 /\ \A i \in new :
                       /\ r.tasks[i].user_id = UUID(me)
                       /\ r.tasks[i].completed = FALSE
                       /\ r.tasks[i].title = body.title
                       /\ r.tasks[i].description = Parsed(body.description)
                       /\ r.resp.tasks = <<TaskResponse(r.tasks, i)>>
            ELSE r.tasks = tasks

\* a task has just been created next to one that was there
WitnessCreateStoresOneOwnTask ==
    /\ last.op = "create_task"
    /\ last.status = 201
    /\ Cardinality(DOMAIN tasks) >= 2
    /\ \A i \in DOMAIN tasks : ~tasks[i].completed

\* --------------------------------------------------------------------- C14
\* bodies a client may send to update: each member alone, none, all
UpdateAttempts ==
    UpdateBodies
    \cup {Body("b", OMIT, OMIT), Body(OMIT, "e", OMIT), Body(OMIT, OMIT, "false"),
          Body(OMIT, OMIT, OMIT), Body("b", "e", "true")}

(* C14: an update answered 200 sets title, description and completed to    *)
(* the request's value where the request supplies one and leaves them as   *)
(* they were where it does not, sets updated_at to the time of the         *)
(* request, and keeps the task's id, owner and created_at; no update,      *)
(* successful or not, changes another task or the set of tasks.            *)
UpdateChangesSuppliedOnly ==
    \A header \in Authentic, user_id \in URLUserIds, task_id \in URLTaskIds,
       body \in UpdateAttempts :
        LET r == update_task(build, tasks, now, header, user_id, task_id, body)
            id == UUID(task_id)
            Kept(member, was, is) ==
                IF member = OMIT THEN is = was
                ELSE is = (IF member \in {"true", "false"}
                           THEN member = "true" ELSE member)
        IN  /\ DOMAIN r.tasks = DOMAIN tasks
            /\ \A i \in DOMAIN tasks :
                  r.resp.status # 200 \/ i # id => r.tasks[i] = tasks[i]
            /\ r.resp.status = 200 =>
                  /\ id \in DOMAIN tasks
                  /\ Kept(body.title, tasks[id].title, r.tasks[id].title)
                  /\ Kept(body.description, tasks[id].description,
                          r.tasks[id].description)
                  /\ Kept(body.completed, tasks[id].completed,
                          r.tasks[id].completed)
                  /\ r.tasks[id].updated_at = now
                  /\ r.tasks[id].user_id = tasks[id].user_id
                  /\ r.tasks[id].created_at = tasks[id].created_at
                  /\ r.resp.tasks = <<TaskResponse(r.tasks, id)>>

\* a task completed by an update later than its creation, the rest as it was
WitnessUpdateChangesSuppliedOnly ==
    /\ last.op = "update_task"
    /\ last.status = 200
    /\ \E i \in DOMAIN tasks :
          /\ tasks[i].completed
          /\ tasks[i].updated_at = now
          /\ tasks[i].updated_at > tasks[i].created_at
          /\ tasks[i].title = "a"
    /\ \E j \in DOMAIN tasks : tasks[j].updated_at = tasks[j].created_at

\* --------------------------------------------------------------------- C15
\* the id of a deleted task is answered as an id no task ever had
DeletedGone ==
    \A id \in retired :
        /\ id \notin DOMAIN tasks
        /\ \A header \in Authentic :
              LET me == get_current_user(build, header, now).value
                  absent == Str(GhostUUID)
                  get(task_id) ==
                      get_task(build, tasks, now, header, me, task_id)
                  del(task_id) ==
                      delete_task(build, tasks, now, header, me, task_id)
                  upd(task_id, body) ==
                      update_task(build, tasks, now, header, me, task_id, body)
              IN  /\ get(Str(id)) = Done(TaskNotFound, tasks)
                  /\ get(Str(id)) = get(absent)
                  /\ del(Str(id)) = Done(TaskNotFound, tasks)
                  /\ del(Str(id)) = del(absent)
                  /\ \A body \in UpdateBodies :
                        /\ upd(Str(id), body) = upd(absent, body)
                        /\ TaskUpdateValid(body) =>
                              upd(Str(id), body) = Done(TaskNotFound, tasks)

\* a delete answered 204 removes the caller's task addressed and no other
DeleteRemovesOne ==
    \A header \in Authentic, user_id \in URLUserIds, task_id \in URLTaskIds :
        LET me == get_current_user(build, header, now).value
            r == delete_task(build, tasks, now, header, user_id, task_id)
        IN  IF r.resp.status = 204
            THEN /\ UUID(task_id) \in DOMAIN tasks
                 /\ tasks[UUID(task_id)].user_id = UUID(me)
                 /\ DOMAIN r.tasks = DOMAIN tasks \ {UUID(task_id)}
                 /\ \A i \in DOMAIN r.tasks : r.tasks[i] = tasks[i]
                 /\ get_task(build, r.tasks, now, header, user_id, task_id)
                       = Done(TaskNotFound, r.tasks)
                 /\ delete_task(build, r.tasks, now, header, user_id, task_id)
                       = Done(TaskNotFound, r.tasks)
            ELSE r.tasks = tasks

(* C15: a delete answered 204 removes the task addressed and no other; in  *)
(* every later state the id stays out of the table, no create gets it      *)
(* again, and a get, update or delete of it by any authenticated caller,   *)
(* its former owner included, is answered NotFound (404) exactly as for an *)
(* id no task ever had.                                                    *)
DeletedStaysGone ==
    /\ [](DeletedGone /\ DeleteRemovesOne)
    /\ [][retired \subseteq retired']_vars

\* a deleted task has been asked for again, another task being there
WitnessDeletedStaysGone ==
    /\ last.op \in {"get_task", "update_task", "delete_task"}
    /\ last.note = "task-deleted"
    /\ last.status = 404
    /\ tasks # <<>>

\* --------------------------------------------------------------------- C16
\* every stored task is owned by a stored user
OwnersExist == \A i \in DOMAIN tasks : tasks[i].user_id \in UserIds

\* deleting a user takes the user and all of the user's tasks, and no other
UserDeleteCascades ==
    \A id \in UserIds :
        LET r == delete_user(build, users, tasks, id)
        IN  /\ r.ok
            /\ id \notin {u.id : u \in r.users}
            /\ OwnedRows(r.tasks, id) = {}
            /\ r.tasks = OnDeleteCascade(tasks, id)
            /\ \A header \in Authentic :
                  LET me == get_current_user(build, header, now).value
                  IN  UUID(me) = id =>
                        /\ list_tasks(build, r.tasks, now, header, me)
                              .resp.tasks = <<>>
                        /\ \A i \in OwnedRows(tasks, id) :
                              get_task(build, r.tasks, now, header, me, Str(i))
                                = Done(TaskNotFound, r.tasks)

\* a task for an owner that is no user is not stored
OrphanInsertRejected ==
    \A header \in Authentic, body \in CreateBodies :
        LET me == get_current_user(build, header, now).value
            r == create_task(build, tasks, UserIds, now, header, me, body,
                             FreshTaskId)
        IN  UUID(me) \notin UserIds =>
                r.tasks = tasks /\ r.resp.status >= 400

(* C16: in every reachable state each stored task is owned by a stored     *)
(* user, deleting any user succeeds and removes all of that user's tasks   *)
(* in the same step, after which the user's list is empty and each of the  *)
(* tasks answers 404, and a task whose owner is no stored user is refused. *)
OwnerAlwaysExists ==
    /\ OwnersExist
    /\ UserDeleteCascades
    /\ OrphanInsertRejected

\* --------------------------------------------------------------------- C17
\* the passwords signup lets through: SignupRequest sets no upper limit
ValidPasswords == {p \in Passwords : PwLen(p) >= MIN_PASSWORD_LENGTH}

(* C17: for every valid password p and salt, hash_password(p) returns a    *)
(* digest that verify_password accepts for p and rejects for every other   *)
(* password q, and hash_password(p) under another salt is another digest.  *)
HashVerifyRoundTrip ==
    \A p \in ValidPasswords, salt \in Salts :
        LET h == hash_password(build, p, salt)
        IN  /\ ~h.raised
            /\ verify_password(build, p, h.digest)
                  = [raised |-> FALSE, ok |-> TRUE]
            /\ \A q \in Passwords \ {p} :
                  verify_password(build, q, h.digest)
                    = [raised |-> FALSE, ok |-> FALSE]
            /\ \A other \in Salts \ {salt} :
                  hash_password(build, p, other).digest # h.digest

\* --------------------------------------------------------------------- C18
\* a users table whose one row holds a password_hash that is no bcrypt digest
MalformedRows ==
    {[id |-> Min(UserUUIDs), email |-> e, password_hash |-> NoDigest,
      created_at |-> 0] : e \in Emails}

(* C18: for a stored password_hash that is no well-formed digest,          *)
(* verify_password returns false without raising for every password, and   *)
(* a signin for that user is answered 401 Invalid email or password.       *)
MalformedDigestFailsClosed ==
    \A row \in MalformedRows, password \in Passwords :
        /\ verify_password(build, password, row.password_hash)
              = [raised |-> FALSE, ok |-> FALSE]
        /\ signin(build, {row}, row.email, password, now, now).resp
              = InvalidCredentials

\* --------------------------------------------------------------------- C19
\* what a signup of each length is answered, in the table as it stands
LengthDecides ==
    \A email \in Emails, password \in Passwords, salt \in Salts :
        LET r == signup_prepare(build, users, now, email, password, salt,
                                FreshUserId)
            c == signup_commit(users, r.row, FALSE, now, now)
        IN  /\ PwLen(password) < MIN_PASSWORD_LENGTH =>
                  ~r.ok /\ r.resp = RequestValidationError
                        /\ r.resp.status = 422
            /\ ( /\ PwLen(password) = MIN_PASSWORD_LENGTH
                 /\ SelectByEmail(users, email) = {}
                 /\ FreshUserId \in UserUUIDs ) =>
                  /\ r.ok
                  /\ c.resp.status = 201
                  /\ c.users = users \cup {r.row}
                  /\ r.row.email = email
                  /\ verify_password(build, password, r.row.password_hash).ok
                  /\ Len(c.token) = 1

\* a signup answered 422 stores no user and issues no token, and one
\* answered 422 ahead of the insert leaves no insert to come
RejectedSignupInert ==
    (last' # last /\ last'.op = "signup" /\ last'.status = 422) =>
        /\ users' = users
        /\ issued' = issued
        /\ last'.note \in {"email-taken", "email-free"} => pending' = pending

(* C19: a signup whose password has fewer than 8 characters, 7 included,   *)
(* is answered 422 whether or not the email is already in the table, and   *)
(* stores no user and issues no token; a signup whose password has exactly *)
(* 8 characters and whose email is unused passes validation and, when the  *)
(* insert is not failed by the database or by a signup racing it, is       *)
(* answered 201 with the user stored and a token issued.                   *)
SignupLengthBoundary == []LengthDecides /\ [][RejectedSignupInert]_vars

\* a short password has been refused while an 8-character one is stored
WitnessSignupLengthBoundary ==
    /\ last.op = "signup"
    /\ last.status = 422
    /\ \E u \in users :
          verify_password(build, Pw("eight888", ""), u.password_hash).ok

\* --------------------------------------------------------------------- C20
\* an error body with all three members of ErrorResponse
Structured(resp) ==
    resp.status >= 400 =>
        resp.error_code # "" /\ resp.detail # "" /\ resp.has_status

\* what the task endpoints answer to every request, as the tables stand
TaskAnswers ==
    UNION {
      {list_tasks(build, tasks, now, header, user_id).resp}
        \cup {create_task(build, tasks, UserIds, now, header, user_id, body,
                          FreshTaskId).resp : body \in CreateBodies}
        \cup UNION {
             {get_task(build, tasks, now, header, user_id, task_id).resp,
              delete_task(build, tasks, now, header, user_id, task_id).resp}
               \cup {update_task(build, tasks, now, header, user_id, task_id,
                                 body).resp : body \in UpdateBodies}
             : task_id \in URLTaskIds}
      : <<header, user_id>> \in Headers \X URLUserIds}

\* what signup and signin answer to every request, as the tables stand
AuthAnswers ==
    UNION {
      {signup_prepare(build, users, now, email, password, salt,
                      FreshUserId).resp,
       signin(build, users, email, password, now, now).resp}
        \cup {signup_commit(users,
                            signup_prepare(build, users, now, email, password,
                                           salt, FreshUserId).row,
                            dbFails, now, now).resp : dbFails \in BOOLEAN}
      : <<email, password, salt>> \in Emails \X Passwords \X Salts}

(* C20: every response of status 400 or more that a task endpoint, signup  *)
(* or signin can give carries an error_code, a detail and the status.      *)
EveryErrorStructured ==
    \A resp \in TaskAnswers \cup AuthAnswers : Structured(resp)

\* --------------------------------------------------------------------- C21
\* every token issued names a stored user by id and by email, and no token
\* names the row of a signup that has not committed yet
TokenNamesStoredUser ==
    /\ \A g \in issued :
          \E u \in users : /\ g.uid = Str(u.id)
                           /\ g.token.payload.sub = Str(u.id)
                           /\ g.token.payload.email = u.email
    /\ \A p \in Procs :
          pending[p].pc = "insert" =>
              /\ pending[p].row.id \notin UserIds
              /\ \A g \in issued : g.uid # Str(pending[p].row.id)

\* what the commit of each signup in flight returns, the insert failing or not
CommitThenToken ==
    \A p \in Procs, dbFails \in BOOLEAN :
        LET row == pending[p].row
            r == signup_commit(users, row, dbFails, now, now)
        IN  pending[p].pc = "insert" =>
              IF r.resp.status = 201
              THEN /\ row \in r.users
                   /\ Len(r.token) = 1
                   /\ r.token[1].payload.sub = Str(row.id)
                   /\ r.token[1].payload.email = row.email
                   /\ r.resp.auth[1].token = r.token[1]
                   /\ r.resp.auth[1].user_id = Str(row.id)
                   /\ r.resp.auth[1].email = row.email
              ELSE r.token = <<>> /\ r.users = users

\* a signup answered with an error issues nothing and stores nothing, and a
\* step that issues a token is one answered 200 or 201
FailedSignupIssuesNothing ==
    /\ (last' # last /\ last'.op = "signup" /\ last'.status >= 400) =>
           issued' = issued /\ users' = users
    /\ issued' # issued => last'.status \in {200, 201}

(* C21: signup issues its token after the commit of the new row: no token  *)
(* names a row still to be inserted, a signup answered 422 or 500 issues   *)
(* no token and stores no row, and a signup answered 201 returns a token   *)
(* whose sub is the id and whose email is the email of the row it stored.  *)
SignupTokenAfterCommit ==
    /\ [](TokenNamesStoredUser /\ CommitThenToken)
    /\ [][FailedSignupIssuesNothing]_vars

\* one signup has been answered 201 and another is about to insert
WitnessSignupTokenAfterCommit ==
    /\ last.op = "signup"
    /\ last.status = 201
    /\ issued # {}
    /\ \E p \in Procs : pending[p].pc = "insert"

\* --------------------------------------------------------------------- C22
\* a signin that returns the user, and a token made now for that user
SignsInAs(r, user, t1, t2) ==
    /\ r.resp.status = 200
    /\ r.resp.auth[1].user_id = Str(user.id)
    /\ r.resp.auth[1].email = user.email
    /\ r.resp.auth[1].token = r.token[1]
    /\ r.token[1] = create_access_token(Str(user.id), user.email, DefaultTtl,
                                        t1, t2)
    /\ decode_access_token(r.token[1], t2).user_id = Str(user.id)

\* a signup answered 201 in this state, and the signin that follows it
SigninRightAfterSignup ==
    \A email \in Emails, password \in Passwords, salt \in Salts :
        LET r == signup_prepare(build, users, now, email, password, salt,
                                FreshUserId)
            c == signup_commit(users, r.row, FALSE, now, now)
        IN  (r.ok /\ c.resp.status = 201) =>
              /\ c.resp.auth[1].user_id = Str(r.row.id)
              /\ c.resp.auth[1].email = email
              /\ \A t2 \in {now, now + 1} :
                    SignsInAs(signin(build, c.users, email, password, now, t2),
                              r.row, now, t2)

\* the users stored earlier, each with the password its digest was made of
SigninLongAfterSignup ==
    \A u \in users, password \in ValidPasswords :
        LET h == hash_password(build, password, u.password_hash.salt)
        IN  (~h.raised /\ h.digest = u.password_hash) =>
              \A t2 \in {now, now + 1} :
                  SignsInAs(signin(build, users, u.email, password, now, t2),
                            u, now, t2)

(* C22: once a signup with an email and a password has been answered 201,  *)
(* a signin with the same email and password is answered 200 with the      *)
(* user_id and email the signup returned and a token made by this signin   *)
(* whose sub is that user_id, right after the signup and in every later    *)
(* state.                                                                  *)
SigninAfterSignup == SigninRightAfterSignup /\ SigninLongAfterSignup

\* a second user is stored and a signin has just been accepted
WitnessSigninAfterSignup ==
    /\ last.op = "signin"
    /\ last.note = "password-accepted"
    /\ last.status = 200
    /\ Cardinality(users) = 2

\* --------------------------------------------------------------------- C23
(* C23: a secret of fewer than 32 bytes makes Settings() raise, so that    *)
(* no request is served and no token exists while the settings are not     *)
(* loaded, and the loaded secret, with which every token issued is signed  *)
(* and every token accepted is verified, has 32 bytes or more.             *)
ShortSecretNeverUsed ==
    /\ \A secret \in Secrets :
          SecretBytes(secret) < MIN_SECRET_LENGTH => Settings(secret).raised
    /\ ~settings.loaded =>
          issued = {} /\ users = {} /\ last.op \in {"down", "startup"}
    /\ settings.loaded =>
          /\ SecretBytes(settings.BETTER_AUTH_SECRET) >= MIN_SECRET_LENGTH
          /\ \A g \in issued :
                /\ g.token.sig.key = settings.BETTER_AUTH_SECRET
                /\ SecretBytes(g.token.sig.key) >= MIN_SECRET_LENGTH
          /\ \A header \in Headers :
                get_current_user(build, header, now).ok =>
                    SecretBytes(header.cred.sig.key) >= MIN_SECRET_LENGTH

\* a start with a secret of 31 bytes has just failed
WitnessShortSecretNeverUsed ==
    /\ last.op = "startup"
    /\ last.note = "secret-short"
    /\ last.status = 500
    /\ ~settings.loaded

\* --------------------------------------------------------------------- C24
\* the table a request leaves when it runs alone, from select to commit
RunAlone(q, store) ==
    LET me == get_current_user(build, q.header, q.at).value
    IN  IF q.op = "update_task"
        THEN update_task(build, store, q.at, q.header, me, Str(RaceTask),
                         q.body).tasks
        ELSE delete_task(build, store, q.at, q.header, me, Str(RaceTask)).tasks

BothDone == \A p \in Workers : inflight[p].pc = "done"

\* the table after both requests is the table of one of the two serial runs
SerialOutcome ==
    BothDone =>
        \E p, q \in Workers :
            /\ p # q
            /\ tasks = RunAlone(inflight[q], RunAlone(inflight[p], RaceBase))

\* with one request committed and the other not, the table is that of the
\* committed request run alone: a commit is whole or not there
NoPartialState ==
    \A p, q \in Workers :
        (p # q /\ inflight[p].pc = "done" /\ inflight[q].pc # "done") =>
            tasks = RunAlone(inflight[p], RaceBase)

\* a column both updates supplied holds the value of the later commit
LaterCommitWins ==
    \A p, q \in Workers :
        ( /\ BothDone
          /\ inflight[p].op = "update_task" /\ inflight[q].op = "update_task"
          /\ inflight[p].seq > 0 /\ inflight[q].seq > inflight[p].seq ) =>
            \A c \in {"title", "description", "completed"} :
                ( /\ Parsed(inflight[p].body[c]) # NULL
                  /\ Parsed(inflight[q].body[c]) # NULL ) =>
                    tasks[RaceTask][c] = inflight[q].assigned[1][c]

(* C24: two requests of the owner on one task, update with update or       *)
(* update with delete, interleaved between select and commit: a commit is  *)
(* one whole row change or none, the table after both is the table of one  *)
(* of the two serial runs, and a column both updates supplied holds the    *)
(* value of the later commit.                                              *)
InterleavedAsSerial == NoPartialState /\ SerialOutcome /\ LaterCommitWins

\* ---------------------------------------------------------------------- C25
\* the expires_delta values a caller passes, in ticks: whole seconds
Deltas == {TicksPerSecond, DefaultTtl}

(* C25: every token issued carries an expiry claim equal to its issued-at  *)
(* claim plus the ttl, the ttl being the caller's expires_delta or, with   *)
(* none given, JWT_EXPIRATION_HOURS: for the tokens signup and signin have *)
(* handed out, and for create_access_token with either ttl at any two      *)
(* clock readings that follow each other.                                  *)
ExpiryIsIssuedPlusTtl ==
    /\ \A g \in issued :
         g.token.payload.exp
             = g.token.payload.iat + JWT_EXPIRATION_HOURS * SecondsPerHour
    /\ \A delta \in Deltas, t2 \in {now, now + 1} :
         LET token == create_access_token("u", NoEmail, delta, now, t2)
         IN  token.payload.exp
                 = token.payload.iat + delta \div TicksPerSecond

\* ---------------------------------------------------------------------- C26
\* bodies that tell presence from value: null, false, a value, nothing
PresenceBodies ==
    {Body(OMIT, NULL, OMIT), Body(OMIT, OMIT, "false"), Body(OMIT, "e", OMIT),
     Body("b", NULL, "false"), Body(OMIT, OMIT, OMIT)}

(* C26: update_task decides member by member on presence in the request,   *)
(* not on the value: an update answered 200 that supplies completed false  *)
(* leaves the task not completed, one that supplies description as null    *)
(* leaves the task without description, and a member left out of the       *)
(* request keeps the stored value.                                         *)
PresenceDecides ==
    \A header \in Authentic, user_id \in URLUserIds, task_id \in URLTaskIds,
       body \in PresenceBodies :
        LET r == update_task(build, tasks, now, header, user_id, task_id, body)
            id == UUID(task_id)
        IN  r.resp.status = 200 =>
              /\ r.tasks[id].title
                    = (IF body.title = OMIT THEN tasks[id].title
                       ELSE body.title)
              /\ r.tasks[id].description
                    = (IF body.description = OMIT THEN tasks[id].description
                       ELSE body.description)
              /\ r.tasks[id].completed
                    = (IF body.completed = OMIT THEN tasks[id].completed
                       ELSE body.completed = "true")

\* ---------------------------------------------------------------------- C27
\* the ids in a list response, in the order of the response
ListedIds(r) == [k \in DOMAIN r.resp.tasks |-> r.resp.tasks[k].id]

(* C27: list_tasks called by an authenticated user on their own collection *)
(* answers 200 with exactly the stored tasks that user owns, each once and *)
(* as stored, an empty list with count 0 when there are none, count equal  *)
(* to the length of the list, and the tasks in descending created_at.      *)
ListReturnsOwnNewestFirst ==
    \A header \in Authentic :
        LET me == get_current_user(build, header, now).value
            r == list_tasks(build, tasks, now, header, me)
            own == {i \in DOMAIN tasks : tasks[i].user_id = UUID(me)}
            ids == ListedIds(r)
        IN  /\ r.resp.status = 200
            /\ r.tasks = tasks
            /\ {ids[k] : k \in DOMAIN ids} = own
            /\ Len(r.resp.tasks) = Cardinality(own)
            /\ r.resp.count = <<Len(r.resp.tasks)>>
            /\ own = {} => r.resp.tasks = <<>> /\ r.resp.count = <<0>>
            /\ \A k \in DOMAIN ids :
                  r.resp.tasks[k] = TaskResponse(tasks, ids[k])
            /\ \A k \in 1 .. Len(r.resp.tasks) - 1 :
                  r.resp.tasks[k].created_at >= r.resp.tasks[k + 1].created_at

(* a list answered 200 while one user holds two tasks, the one with the    *)
(* greater id created later, and the other user holds none                 *)
WitnessListReturnsOwnNewestFirst ==
    /\ last.op = "list_tasks"
    /\ last.status = 200
    /\ \E i, j \in DOMAIN tasks :
          /\ tasks[i].user_id = tasks[j].user_id
          /\ tasks[i].created_at < tasks[j].created_at
          /\ i < j
    /\ \E u \in users : \A k \in DOMAIN tasks : tasks[k].user_id # u.id

\* ---------------------------------------------------------------------- C28
(* what the holder of the secret can sign for the subject of an issued     *)
(* token: the same claims with any email, or with none                     *)
Reissued(token) ==
    {[wf |-> TRUE, payload |-> [token.payload EXCEPT !.email = e],
      sig |-> Sign([token.payload EXCEPT !.email = e], BETTER_AUTH_SECRET)] :
        e \in Emails \cup {NoEmail}}

\* the signed tokens that decode now
SignedNow ==
    {k \in UNION {Reissued(token) : token \in Tokens} :
        jwt_decode(k, BETTER_AUTH_SECRET, now).exc = ""}

(* C28: two tokens with a valid signature, not expired, that carry the     *)
(* same subject get the same response and leave the same table on the list,*)
(* create, get, update and delete endpoints, whatever email they carry.    *)
OnlySubjectDecides ==
    \A k1, k2 \in SignedNow :
        k1.payload.sub = k2.payload.sub =>
          LET h1 == Header("Bearer", TRUE, k1)
              h2 == Header("Bearer", TRUE, k2)
          IN  \A user_id \in URLUserIds :
                /\ list_tasks(build, tasks, now, h1, user_id)
                     = list_tasks(build, tasks, now, h2, user_id)
                /\ \A body \in CreateBodies :
                      create_task(build, tasks, UserIds, now, h1, user_id,
                                  body, FreshTaskId)
                        = create_task(build, tasks, UserIds, now, h2, user_id,
                                      body, FreshTaskId)
                /\ \A task_id \in URLTaskIds :
                      /\ get_task(build, tasks, now, h1, user_id, task_id)
                           = get_task(build, tasks, now, h2, user_id, task_id)
                      /\ delete_task(build, tasks, now, h1, user_id, task_id)
                           = delete_task(build, tasks, now, h2, user_id,
                                         task_id)
                      /\ \A body \in UpdateBodies :
                            update_task(build, tasks, now, h1, user_id,
                                        task_id, body)
                              = update_task(build, tasks, now, h2, user_id,
                                            task_id, body)

(* a task endpoint has answered the owner of a stored task, whose subject  *)
(* has signed tokens that decode now with an email of another user and     *)
(* with no email                                                           *)
WitnessOnlySubjectDecides ==
    /\ last.op \in {"list_tasks", "create_task"}
    /\ last.status \in {200, 201}
    /\ \E i \in DOMAIN tasks : \E k1, k2 \in SignedNow :
          /\ UUID(k1.payload.sub) = tasks[i].user_id
          /\ k2.payload.sub = k1.payload.sub
          /\ k1.payload.email = NoEmail
          /\ k2.payload.email \in {u.email : u \in users}
          /\ \A u \in users : u.email = k2.payload.email => u.id # tasks[i].user_id

\* ---------------------------------------------------------------------- C29
\* the routes whose requests can end in an error
RequestOps ==
    {"signup", "signin", "list_tasks", "create_task", "get_task",
     "update_task", "delete_task"}

\* a task handler's outcome: the table is as it was unless the answer is 2xx
Inert(r) == r.resp.status >= 400 => r.tasks = tasks

(* whatever request arrives in this state: a task request answered with an *)
(* error leaves the table as it is, list and get leave it as it is on any  *)
(* answer, a signup that fails at the commit stores no user, and a commit  *)
(* of an update whose row is gone writes nothing                           *)
RequestsInert ==
    /\ \A header \in Headers : \A user_id \in PathsAfter(header) :
          /\ list_tasks(build, tasks, now, header, user_id).tasks = tasks
          /\ \A body \in CreateBodies :
                Inert(create_task(build, tasks, UserIds, now, header, user_id,
                                  body, FreshTaskId))
          /\ \A task_id \in TaskIdsAfter(header, user_id) :
                /\ get_task(build, tasks, now, header, user_id, task_id).tasks
                     = tasks
                /\ Inert(delete_task(build, tasks, now, header, user_id,
                                     task_id))
                /\ \A body \in UpdateBodies :
                      Inert(update_task(build, tasks, now, header, user_id,
                                        task_id, body))
    /\ \A p \in Procs, dbFails \in BOOLEAN :
          pending[p].pc = "insert" =>
            LET r == signup_commit(users, pending[p].row, dbFails, now, now)
            IN  r.resp.status >= 400 => r.users = users
    /\ \A i \in DOMAIN tasks, gone \in TaskUUIDs \ DOMAIN tasks :
          LET r == session_commit_update(tasks, gone, tasks[i],
                                         [tasks[i] EXCEPT !.completed = ~@])
          IN  r.resp.status >= 400 /\ r.tasks = tasks

\* a step that ends a request in an error, or ends a signin, list or get
StepInert ==
    ( \/ last'.op \in RequestOps /\ last'.status >= 400
      \/ last'.op \in {"signin", "list_tasks", "get_task"} ) =>
        users' = users /\ tasks' = tasks

ExactBearerForm(h) ==
    /\ Len(h) = 3
    /\ Lower(h[1]) = "bearer"
    /\ h[2] = " "
    /\ h[3] \notin Whitespace

(* C30: extract_token_from_header returns the token exactly for a header   *)
(* made of the scheme Bearer in any case, one space and the token, and     *)
(* None for every other value: empty, another scheme, more or fewer parts, *)
(* another separator.                                                      *)
ExtractOnlyExactBearer ==
    extracted.token
        = (IF ExactBearerForm(extracted.header) THEN extracted.header[3]
           ELSE NoToken)

====
